---- MODULE Spec2Model ----
(***************************************************************************)
(* Cycle-level model of the NMOS 6502 core of the 1541 emulator (M6502).   *)
(* One Step() is one bus cycle.  The CPU object is the record m; every     *)
(* address-mode stage and every opcode body is an operator from a CPU      *)
(* record (and the byte the bus returns in this cycle) to a CPU record.    *)
(* The bus accesses a Step() makes are collected in m.bus.                 *)
(* The Screen, the UART manager and the modem sniffer of the firmware are   *)
(* modelled beside it, each as a record with one operator per method.      *)
(***************************************************************************)
EXTENDS Integers, Sequences, FiniteSets, TLC

VARIABLES m,      \* the M6502 object (registers, dispatcher cursors, latches, IRQ/NMI lines)
          mem,    \* bytes the CPU has written to the bus (RAM behind the bus)
          cfg,    \* build switches and the environment profile, fixed by Init
          hist,   \* observations of the run: cycle counters, what the last Step did
          scr,    \* the Screen object (geometry of the framebuffer, offsets last plotted)
          uart,   \* one UARTManager object and the driver slot of its port
          snf     \* the ModemSniffer object and its output file

vars == <<m, mem, cfg, hist, scr, uart, snf>>

-----------------------------------------------------------------------------
(* Fixed-width arithmetic                                                  *)

RECURSIVE BitAnd(_, _)
BitAnd(p, q) == IF p = 0 \/ q = 0 THEN 0
                ELSE (p % 2) * (q % 2) + 2 * BitAnd(p \div 2, q \div 2)

RECURSIVE BitOr(_, _)
BitOr(p, q) == IF p = 0 THEN q ELSE IF q = 0 THEN p
               ELSE (IF (p % 2) + (q % 2) > 0 THEN 1 ELSE 0) + 2 * BitOr(p \div 2, q \div 2)

RECURSIVE BitXor(_, _)
BitXor(p, q) == IF p = 0 THEN q ELSE IF q = 0 THEN p
                ELSE ((p + q) % 2) + 2 * BitXor(p \div 2, q \div 2)

U8(v)  == v % 256
U16(v) == v % 65536
Lo(v)  == v % 256
Hi(v)  == (v \div 256) % 256

-----------------------------------------------------------------------------
(* Status flags                                                            *)

FLAG_CARRY     == 1
FLAG_ZERO      == 2
FLAG_INTERRUPT == 4
FLAG_DECIMAL   == 8
FLAG_BREAK     == 16
FLAG_CONSTANT  == 32
FLAG_OVERFLOW  == 64
FLAG_SIGN      == 128

Flag(s, f)       == BitAnd(s.status, f) # 0
SetFlag(s, f)    == [s EXCEPT !.status = BitOr(@, f)]
ClearFlag(s, f)  == [s EXCEPT !.status = @ - BitAnd(@, f)]
TestFlag(s, f, t) == IF t THEN SetFlag(s, f) ELSE ClearFlag(s, f)

ClearB(s) == ClearFlag(s, FLAG_BREAK)
ClearC(s) == ClearFlag(s, FLAG_CARRY)
SetC(s)   == SetFlag(s, FLAG_CARRY)
ClearI(s) == ClearFlag(s, FLAG_INTERRUPT)
SetI(s)   == SetFlag(s, FLAG_INTERRUPT)
ClearD(s) == ClearFlag(s, FLAG_DECIMAL)
SetD(s)   == SetFlag(s, FLAG_DECIMAL)
ClearV(s) == ClearFlag(s, FLAG_OVERFLOW)
SetV(s)   == SetFlag(s, FLAG_OVERFLOW)

EstablishZ(s, val) == TestFlag(s, FLAG_ZERO, BitAnd(val, 255) = 0)
EstablishN(s, val) == TestFlag(s, FLAG_SIGN, BitAnd(val, 128) # 0)
EstablishC(s, val) == TestFlag(s, FLAG_CARRY, BitAnd(U16(val), 65280) # 0)
\* An EstablishV that compares the result with the accumulator alone.
EstablishV_NoOperand(s, result, val) ==
    TestFlag(s, FLAG_OVERFLOW, BitAnd(BitXor(result, s.a), 128) # 0)

EstablishV(s, result, val) ==
    TestFlag(s, FLAG_OVERFLOW,
             BitAnd(BitAnd(BitXor(result, s.a), BitXor(result, val)), 128) # 0)
EstablishNZ(s, val) == EstablishN(EstablishZ(s, val), val)

-----------------------------------------------------------------------------
(* Bus                                                                     *)

\* dataBusReadFn(address): the access is recorded; d is the byte the host returns.
dataBusReadFn(s, address, d) ==
    [s EXCEPT !.bus = Append(@, [k |-> "R", a |-> U16(address), v |-> d])]

\* dataBusWriteFn(address, value)
dataBusWriteFn(s, address, val) ==
    [s EXCEPT !.bus = Append(@, [k |-> "W", a |-> U16(address), v |-> U8(val)])]

\* M6502::BusRead: the read a stage makes through BUS_READ in a build with
\* SUPPORT_RDY_HALTING; the read is issued, and with RDY asserted the CPU is
\* halted in this cycle.
BusRead(s, address, d) ==
    [dataBusReadFn(s, address, d) EXCEPT !.RDYHalted = s.RDYAsserted]

\* BUS_READ is BusRead when SUPPORT_RDY_HALTING is defined, else dataBusReadFn.
BUS_READ(s, address, d) ==
    IF cfg.SUPPORT_RDY_HALTING THEN BusRead(s, address, d)
    ELSE dataBusReadFn(s, address, d)

\* A Push that moves sp but puts nothing on the bus.
Push_NoAccess(s, val) == [s EXCEPT !.sp = U8(s.sp + 255)]

\* Push: dataBusWriteFn(0x100 + sp--, val)
Push(s, val) == [dataBusWriteFn(s, 256 + s.sp, val) EXCEPT !.sp = U8(s.sp + 255)]

\* A Pull whose address is formed from an sp wider than 8 bits.
Pull_NoWrap(s, d) == [dataBusReadFn(s, 256 + s.sp + 1, d) EXCEPT !.sp = U8(s.sp + 1)]

\* Pull: dataBusReadFn(0x100 + ++sp); the caller uses d as the result.
Pull(s, d) == [dataBusReadFn(s, 256 + U8(s.sp + 1), d) EXCEPT !.sp = U8(s.sp + 1)]

\* WriteValue: to A for the accumulator mode, else to the effective address.
WriteValue(s, byte) ==
    IF s.fn = "sb_1_T1" THEN [s EXCEPT !.a = U8(byte)]
    ELSE dataBusWriteFn(s, s.ea, byte)

-----------------------------------------------------------------------------
(* Opcode bodies.  s is the CPU, d the byte a Pull or operand read returns. *)

XAA_MAGIC == 238
LXA_MAGIC == 238

\* A BRANCH_CONDITION without `if (ra & 0x80) ra |= 0xFF00`.
BRANCH_CONDITION_NoSignExtension(s, d, flag, condition) ==
    LET r   == BUS_READ(s, s.pc, d)
        pc1 == U16(s.pc + 1)
        ra  == d
    IN  IF BitAnd(s.status, flag) = condition
        THEN [r EXCEPT !.ea = ra, !.ia = pc1,
                       !.pc = BitOr(BitAnd(pc1, 65280), BitAnd(pc1 + ra, 255)),
                       !.fn = "rel_5_8_T2"]
        ELSE [r EXCEPT !.ea = ra, !.pc = pc1, !.fn = "InstructionFetch"]

\* BRANCH_CONDITION(flag, condition): ra shares storage with ea, oldpc with ia.
BRANCH_CONDITION(s, d, flag, condition) ==
    LET r   == BUS_READ(s, s.pc, d)
        pc1 == U16(s.pc + 1)
        ra  == IF BitAnd(d, 128) # 0 THEN BitOr(d, 65280) ELSE d
    IN  IF BitAnd(s.status, flag) = condition
        THEN [r EXCEPT !.ea = ra, !.ia = pc1,
                       !.pc = BitOr(BitAnd(pc1, 65280), BitAnd(pc1 + ra, 255)),
                       !.fn = "rel_5_8_T2"]
        ELSE [r EXCEPT !.ea = ra, !.pc = pc1, !.fn = "InstructionFetch"]

\* ADC: r = a + value + C; decimal mode adjusts A and the carry, N/Z/V follow the
\* binary sum.
ADC(s) ==
    LET c   == BitAnd(s.status, FLAG_CARRY)
        v   == U8(s.value)
        r   == s.a + v + c
        al  == BitAnd(s.a, 15) + BitAnd(v, 15) + c
        al2 == IF al > 9 THEN al + 6 ELSE al
        t   == BitAnd(s.a, 240) + BitAnd(v, 240) + (IF al2 > 15 THEN 16 ELSE 0)
               + BitAnd(al2, 15)
        t2  == IF t > 159 THEN t + 96 ELSE t
        f   == EstablishN(EstablishV(EstablishZ(s, r), r, v), r)
    IN  IF Flag(s, FLAG_DECIMAL)
        THEN [TestFlag(f, FLAG_CARRY, t2 > 255) EXCEPT !.a = U8(t2)]
        ELSE [EstablishC(f, r) EXCEPT !.a = U8(r)]

\* SBC: ADC of the ones-complemented operand.
SBC(s) == ADC([s EXCEPT !.value = BitXor(U8(s.value), 255)])

ANC(s) == LET result == BitAnd(s.a, s.value)
          IN [TestFlag(EstablishNZ(s, result), FLAG_CARRY, BitAnd(result, 128) # 0)
                 EXCEPT !.a = U8(result)]
AND(s) == LET result == BitAnd(s.a, s.value)
          IN [EstablishNZ(s, result) EXCEPT !.a = U8(result)]
ASL(s) == LET result == U16(s.value * 2)
          IN WriteValue(EstablishNZ(EstablishC(s, result), result), result)
BCC(s, d) == BRANCH_CONDITION(s, d, FLAG_CARRY, 0)
BCS(s, d) == BRANCH_CONDITION(s, d, FLAG_CARRY, FLAG_CARRY)
BEQ(s, d) == BRANCH_CONDITION(s, d, FLAG_ZERO, FLAG_ZERO)
BIT(s) == LET result == BitAnd(s.a, s.value)
          IN EstablishN(TestFlag(EstablishZ(s, result), FLAG_OVERFLOW,
                                 BitAnd(s.value, 64) # 0), s.value)
BMI(s, d) == BRANCH_CONDITION(s, d, FLAG_SIGN, FLAG_SIGN)
BNE(s, d) == BRANCH_CONDITION(s, d, FLAG_ZERO, 0)
BPL(s, d) == BRANCH_CONDITION(s, d, FLAG_SIGN, 0)
BVC(s, d) == BRANCH_CONDITION(s, d, FLAG_OVERFLOW, 0)
BVS(s, d) == BRANCH_CONDITION(s, d, FLAG_OVERFLOW, FLAG_OVERFLOW)
BRK(s) == s
CLC(s) == ClearC(s)
CLD(s) == ClearD(s)
\* A CLI that clears I and leaves CLIMaskingInterrupt alone.
CLI_NoMask(s) == ClearI(s)
CLI(s) == [ClearI(s) EXCEPT !.CLIMaskingInterrupt = TRUE]
CLV(s) == ClearV(s)
Compare(s, reg) ==
    LET v == U8(s.value)
        result == U16(reg - s.value + 65536)
    IN EstablishN(TestFlag(TestFlag(s, FLAG_CARRY, reg >= v), FLAG_ZERO, reg = v), result)
CMP(s) == Compare(s, s.a)
CPX(s) == Compare(s, s.x)
CPY(s) == Compare(s, s.y)
DEC(s) == LET result == U16(s.value + 65535) IN WriteValue(EstablishNZ(s, result), result)
DEX(s) == LET r == U8(s.x + 255) IN EstablishNZ([s EXCEPT !.x = r], r)
DEY(s) == LET r == U8(s.y + 255) IN EstablishNZ([s EXCEPT !.y = r], r)
EOR(s) == LET result == BitXor(s.a, s.value)
          IN [EstablishNZ(s, result) EXCEPT !.a = U8(result)]
INC(s) == LET result == U16(s.value + 1) IN WriteValue(EstablishNZ(s, result), result)
INX(s) == LET r == U8(s.x + 1) IN EstablishNZ([s EXCEPT !.x = r], r)
INY(s) == LET r == U8(s.y + 1) IN EstablishNZ([s EXCEPT !.y = r], r)
JAM(s) == s
JMP(s) == [s EXCEPT !.pc = s.ea]
JSR(s) == s
LDA(s) == LET r == U8(s.value) IN EstablishNZ([s EXCEPT !.a = r], r)
LDX(s) == LET r == U8(s.value) IN EstablishNZ([s EXCEPT !.x = r], r)
LDY(s) == LET r == U8(s.value) IN EstablishNZ([s EXCEPT !.y = r], r)
LSR(s) == LET result == s.value \div 2
          IN WriteValue(EstablishNZ(TestFlag(s, FLAG_CARRY, s.value % 2 = 1), result), result)
NOP(s) == s
ORA(s) == LET result == BitOr(s.a, s.value)
          IN [EstablishNZ(s, result) EXCEPT !.a = U8(result)]
PHA(s) == Push(s, s.a)
\* A PHP that pushes the register's own B bit.
PHP_NoBreak(s) == Push(s, BitOr(s.status, FLAG_CONSTANT))
PHP(s) == Push(s, BitOr(BitOr(s.status, FLAG_CONSTANT), FLAG_BREAK))
\* A PLA that leaves the flags alone.
PLA_NoFlags(s, d) == [Pull(s, d) EXCEPT !.a = d]
PLA(s, d) == EstablishNZ([Pull(s, d) EXCEPT !.a = d], d)
PLP(s, d) == [Pull(s, d) EXCEPT !.status = BitOr(d, FLAG_CONSTANT)]
ROL(s) == LET result == U16(BitOr(s.value * 2, BitAnd(s.status, FLAG_CARRY)))
          IN WriteValue(EstablishNZ(EstablishC(s, result), result), result)
ROR(s) == LET result == BitOr(s.value \div 2, BitAnd(s.status, FLAG_CARRY) * 128)
          IN WriteValue(EstablishNZ(TestFlag(s, FLAG_CARRY, s.value % 2 = 1), result), result)
RTI(s) == s
RTS(s) == s
SEC(s) == SetC(s)
SED(s) == SetD(s)
SEI(s) == SetI(s)
STA(s) == WriteValue(s, s.a)
STX(s) == WriteValue(s, s.x)
STY(s) == WriteValue(s, s.y)
TAX(s) == EstablishNZ([s EXCEPT !.x = s.a], s.a)
TAY(s) == EstablishNZ([s EXCEPT !.y = s.a], s.a)
TSX(s) == EstablishNZ([s EXCEPT !.x = s.sp], s.sp)
TXA(s) == EstablishNZ([s EXCEPT !.a = s.x], s.x)
\* A TXS that sets N and Z as the other transfers do.
TXS_SetsFlags(s) == EstablishNZ([s EXCEPT !.sp = s.x], s.x)
TXS(s) == [s EXCEPT !.sp = s.x]
TYA(s) == EstablishNZ([s EXCEPT !.a = s.y], s.y)

(* Undocumented opcodes *)
ASR(s) == LET t == BitAnd(s.a, s.value)
              result == t \div 2
          IN [EstablishNZ(TestFlag(s, FLAG_CARRY, t % 2 = 1), result) EXCEPT !.a = U8(result)]
LXA(s) == LET result == BitAnd(BitOr(s.a, LXA_MAGIC), s.value)
          IN [EstablishNZ(s, result) EXCEPT !.x = U8(result), !.a = U8(result)]
\* ARR: A = ((A & M) >> 1) | (C << 7); C = bit 6, V = bit 6 xor bit 5 of the result.
ARR(s) == LET result == BitOr(BitAnd(s.a, U8(s.value)) \div 2,
                              BitAnd(s.status, FLAG_CARRY) * 128)
              b6 == (result \div 64) % 2
              b5 == (result \div 32) % 2
          IN [TestFlag(TestFlag(EstablishNZ(s, result), FLAG_CARRY, b6 = 1),
                       FLAG_OVERFLOW, b6 # b5) EXCEPT !.a = U8(result)]
LAX(s) == LDX(LDA(s))
LAS(s) == LET r == BitAnd(s.sp, U8(s.value))
          IN EstablishNZ([s EXCEPT !.sp = r, !.x = r, !.a = r], r)
SAX(s) == WriteValue(s, BitAnd(s.a, s.x))
SBX(s) == LET result == U16(BitAnd(s.a, s.x) - s.value + 65536)
              r == BitAnd(result, 255)
          IN TestFlag(EstablishNZ([s EXCEPT !.x = r], r), FLAG_CARRY, result < 256)
SHA(s) == WriteValue(s, BitAnd(BitAnd(s.a, s.x), (s.ea \div 256) + 1))
SHY(s) == WriteValue(s, BitAnd((s.ea \div 256) + 1, s.y))
DCP(s) == LET result == BitAnd(U16(s.value + 65535), 255)
          IN WriteValue(EstablishNZ(TestFlag(s, FLAG_CARRY, s.a >= result),
                                    U16(s.a - result + 65536)), result)
ISB(s) == LET v == BitAnd(s.value + 1, 255)
          IN SBC(WriteValue([s EXCEPT !.value = v], v))
SLO(s) == LET result == U16(s.value * 2)
              na == BitOr(s.a, U8(result))
          IN WriteValue(EstablishNZ([EstablishC(s, result) EXCEPT !.a = na], na), result)
RLA(s) == LET result == U16(BitOr(s.value * 2, BitAnd(s.status, FLAG_CARRY)))
              na == BitAnd(s.a, U8(result))
          IN WriteValue(EstablishNZ([EstablishC(s, result) EXCEPT !.a = na], na), result)
SRE(s) == LET result == s.value \div 2
              na == BitXor(s.a, U8(result))
          IN WriteValue(EstablishNZ([TestFlag(s, FLAG_CARRY, s.value % 2 = 1)
                                        EXCEPT !.a = na], na), result)
RRA(s) == LET result == BitOr(s.value \div 2, BitAnd(s.status, FLAG_CARRY) * 128)
              w == WriteValue(TestFlag(s, FLAG_CARRY, s.value % 2 = 1), result)
          IN ADC([w EXCEPT !.value = BitAnd(result, 255)])
SHS(s) == LET result == BitAnd(s.a, s.x)
          IN [WriteValue(s, BitAnd(result, (s.ea \div 256) + 1)) EXCEPT !.sp = U8(result)]
SHX(s) == WriteValue(s, BitAnd((s.ea \div 256) + 1, s.x))
XAA(s) == LET result == BitAnd(BitAnd(BitOr(s.a, XAA_MAGIC), s.x), U8(s.value))
          IN [EstablishNZ(s, result) EXCEPT !.a = U8(result)]

-----------------------------------------------------------------------------
(* Opcode tables (indexed by opcode + 1) and the opcode executor           *)

opcodeFunctions ==
    <<"BRK", "ORA", "JAM", "SLO", "NOP", "ORA", "ASL", "SLO",  \* 00
      "PHP", "ORA", "ASL", "ANC", "NOP", "ORA", "ASL", "SLO",  \* 08
      "BPL", "ORA", "JAM", "SLO", "NOP", "ORA", "ASL", "SLO",  \* 10
      "CLC", "ORA", "NOP", "SLO", "NOP", "ORA", "ASL", "SLO",  \* 18
      "JSR", "AND", "JAM", "RLA", "BIT", "AND", "ROL", "RLA",  \* 20
      "PLP", "AND", "ROL", "ANC", "BIT", "AND", "ROL", "RLA",  \* 28
      "BMI", "AND", "JAM", "RLA", "NOP", "AND", "ROL", "RLA",  \* 30
      "SEC", "AND", "NOP", "RLA", "NOP", "AND", "ROL", "RLA",  \* 38
      "RTI", "EOR", "JAM", "SRE", "NOP", "EOR", "LSR", "SRE",  \* 40
      "PHA", "EOR", "LSR", "ASR", "JMP", "EOR", "LSR", "SRE",  \* 48
      "BVC", "EOR", "JAM", "SRE", "NOP", "EOR", "LSR", "SRE",  \* 50
      "CLI", "EOR", "NOP", "SRE", "NOP", "EOR", "LSR", "SRE",  \* 58
      "RTS", "ADC", "JAM", "RRA", "NOP", "ADC", "ROR", "RRA",  \* 60
      "PLA", "ADC", "ROR", "ARR", "JMP", "ADC", "ROR", "RRA",  \* 68
      "BVS", "ADC", "JAM", "RRA", "NOP", "ADC", "ROR", "RRA",  \* 70
      "SEI", "ADC", "NOP", "RRA", "NOP", "ADC", "ROR", "RRA",  \* 78
      "NOP", "STA", "NOP", "SAX", "STY", "STA", "STX", "SAX",  \* 80
      "DEY", "NOP", "TXA", "XAA", "STY", "STA", "STX", "SAX",  \* 88
      "BCC", "STA", "JAM", "SHA", "STY", "STA", "STX", "SAX",  \* 90
      "TYA", "STA", "TXS", "SHS", "SHY", "STA", "SHX", "SHA",  \* 98
      "LDY", "LDA", "LDX", "LAX", "LDY", "LDA", "LDX", "LAX",  \* A0
      "TAY", "LDA", "TAX", "LXA", "LDY", "LDA", "LDX", "LAX",  \* A8
      "BCS", "LDA", "JAM", "LAX", "LDY", "LDA", "LDX", "LAX",  \* B0
      "CLV", "LDA", "TSX", "LAS", "LDY", "LDA", "LDX", "LAX",  \* B8
      "CPY", "CMP", "NOP", "DCP", "CPY", "CMP", "DEC", "DCP",  \* C0
      "INY", "CMP", "DEX", "SBX", "CPY", "CMP", "DEC", "DCP",  \* C8
      "BNE", "CMP", "JAM", "DCP", "NOP", "CMP", "DEC", "DCP",  \* D0
      "CLD", "CMP", "NOP", "DCP", "NOP", "CMP", "DEC", "DCP",  \* D8
      "CPX", "SBC", "NOP", "ISB", "CPX", "SBC", "INC", "ISB",  \* E0
      "INX", "SBC", "NOP", "SBC", "CPX", "SBC", "INC", "ISB",  \* E8
      "BEQ", "SBC", "JAM", "ISB", "NOP", "SBC", "INC", "ISB",  \* F0
      "SED", "SBC", "NOP", "ISB", "NOP", "SBC", "INC", "ISB" >>  \* F8

T1AddressModeFunctions ==
    <<"brk_5_4_T1", "idx_2_4_T1", "sb_jam_T1", "idx_Undoc_T1", "zp_2_1_T1", "zp_2_1_T1", "zp_4_1_T1", "zp_4_1_T1",  \* 00
      "ph_5_1_T1", "imm_2_1_T1", "sb_1_T1", "imm_2_1_T1", "abs_2_3_T1", "abs_2_3_T1", "abs_4_2_T1", "abs_4_2_T1",  \* 08
      "rel_5_8_T1", "idy_2_7_T1", "sb_jam_T1", "idy_Undoc_T1", "zpx_2_6_T1", "zpx_2_6_T1", "zpx_4_3_T1", "zpx_4_3_T1",  \* 10
      "sb_1_T1", "absy_2_5_T1", "sb_1_T1", "absy_4_4_T1", "absx_2_5_T1", "absx_2_5_T1", "absx_4_4_T1", "absx_4_4_T1",  \* 18
      "jsr_5_3_T1", "idx_2_4_T1", "sb_jam_T1", "idx_Undoc_T1", "zp_2_1_T1", "zp_2_1_T1", "zp_4_1_T1", "zp_4_1_T1",  \* 20
      "pl_5_2_T1", "imm_2_1_T1", "sb_1_T1", "imm_2_1_T1", "abs_2_3_T1", "abs_2_3_T1", "abs_4_2_T1", "abs_4_2_T1",  \* 28
      "rel_5_8_T1", "idy_2_7_T1", "sb_jam_T1", "idy_Undoc_T1", "zpx_2_6_T1", "zpx_2_6_T1", "zpx_4_3_T1", "zpx_4_3_T1",  \* 30
      "sb_1_T1", "absy_2_5_T1", "sb_1_T1", "absy_4_4_T1", "absx_2_5_T1", "absx_2_5_T1", "absx_4_4_T1", "absx_4_4_T1",  \* 38
      "rti_5_5_T1", "idx_2_4_T1", "sb_jam_T1", "idx_Undoc_T1", "zp_2_1_T1", "zp_2_1_T1", "zp_4_1_T1", "zp_4_1_T1",  \* 40
      "ph_5_1_T1", "imm_2_1_T1", "sb_1_T1", "imm_2_1_T1", "abs5_6_1_T1", "abs_2_3_T1", "abs_4_2_T1", "abs_4_2_T1",  \* 48
      "rel_5_8_T1", "idy_2_7_T1", "sb_jam_T1", "idy_Undoc_T1", "zpx_2_6_T1", "zpx_2_6_T1", "zpx_4_3_T1", "zpx_4_3_T1",  \* 50
      "sb_1_T1", "absy_2_5_T1", "sb_1_T1", "absy_4_4_T1", "absx_2_5_T1", "absx_2_5_T1", "absx_4_4_T1", "absx_4_4_T1",  \* 58
      "rts_5_7_T1", "idx_2_4_T1", "sb_jam_T1", "idx_Undoc_T1", "zp_2_1_T1", "zp_2_1_T1", "zp_4_1_T1", "zp_4_1_T1",  \* 60
      "pl_5_2_T1", "imm_2_1_T1", "sb_1_T1", "imm_2_1_T1", "abs5_6_2_T1", "abs_2_3_T1", "abs_4_2_T1", "abs_4_2_T1",  \* 68
      "rel_5_8_T1", "idy_2_7_T1", "sb_jam_T1", "idy_Undoc_T1", "zpx_2_6_T1", "zpx_2_6_T1", "zpx_4_3_T1", "zpx_4_3_T1",  \* 70
      "sb_1_T1", "absy_2_5_T1", "sb_1_T1", "absy_4_4_T1", "absx_2_5_T1", "absx_2_5_T1", "absx_4_4_T1", "absx_4_4_T1",  \* 78
      "imm_2_1_T1", "idx_3_3_T1", "imm_2_1_T1", "idx_3_3_T1", "zp_3_1_T1", "zp_3_1_T1", "zp_3_1_T1", "zp_3_1_T1",  \* 80
      "sb_1_T1", "imm_2_1_T1", "sb_1_T1", "imm_2_1_T1", "abs_3_2_T1", "abs_3_2_T1", "abs_3_2_T1", "abs_3_2_T1",  \* 88
      "rel_5_8_T1", "idy_3_6_T1", "sb_jam_T1", "idy_3_6_T1", "zpx_3_5_T1", "zpx_3_5_T1", "zpy_3_5_T1", "zpy_3_5_T1",  \* 90
      "sb_1_T1", "absy_3_4_T1", "sb_1_T1", "absy_3_4_T1", "absx_3_4_T1", "absx_3_4_T1", "absy_3_4_T1", "absy_3_4_T1",  \* 98
      "imm_2_1_T1", "idx_2_4_T1", "imm_2_1_T1", "idx_2_4_T1", "zp_2_1_T1", "zp_2_1_T1", "zp_2_1_T1", "zp_2_1_T1",  \* A0
      "sb_1_T1", "imm_2_1_T1", "sb_1_T1", "imm_2_1_T1", "abs_2_3_T1", "abs_2_3_T1", "abs_2_3_T1", "abs_2_3_T1",  \* A8
      "rel_5_8_T1", "idy_2_7_T1", "sb_jam_T1", "idy_2_7_T1", "zpx_2_6_T1", "zpx_2_6_T1", "zpy_2_6_T1", "zpy_2_6_T1",  \* B0
      "sb_1_T1", "absy_2_5_T1", "sb_1_T1", "absy_2_5_T1", "absx_2_5_T1", "absx_2_5_T1", "absy_2_5_T1", "absy_2_5_T1",  \* B8
      "imm_2_1_T1", "idx_2_4_T1", "imm_2_1_T1", "idx_Undoc_T1", "zp_2_1_T1", "zp_2_1_T1", "zp_4_1_T1", "zp_4_1_T1",  \* C0
      "sb_1_T1", "imm_2_1_T1", "sb_1_T1", "imm_2_1_T1", "abs_2_3_T1", "abs_2_3_T1", "abs_4_2_T1", "abs_4_2_T1",  \* C8
      "rel_5_8_T1", "idy_2_7_T1", "sb_jam_T1", "idy_Undoc_T1", "zpx_2_6_T1", "zpx_2_6_T1", "zpx_4_3_T1", "zpx_4_3_T1",  \* D0
      "sb_1_T1", "absy_2_5_T1", "sb_1_T1", "absy_4_4_T1", "absx_2_5_T1", "absx_2_5_T1", "absx_4_4_T1", "absx_4_4_T1",  \* D8
      "imm_2_1_T1", "idx_2_4_T1", "imm_2_1_T1", "idx_Undoc_T1", "zp_2_1_T1", "zp_2_1_T1", "zp_4_1_T1", "zp_4_1_T1",  \* E0
      "sb_1_T1", "imm_2_1_T1", "sb_1_T1", "imm_2_1_T1", "abs_2_3_T1", "abs_2_3_T1", "abs_4_2_T1", "abs_4_2_T1",  \* E8
      "rel_5_8_T1", "idy_2_7_T1", "sb_jam_T1", "idy_Undoc_T1", "zpx_2_6_T1", "zpx_2_6_T1", "zpx_4_3_T1", "zpx_4_3_T1",  \* F0
      "sb_1_T1", "absy_2_5_T1", "sb_1_T1", "absy_4_4_T1", "absx_2_5_T1", "absx_2_5_T1", "absx_4_4_T1", "absx_4_4_T1" >>  \* F8

\* (this->*opcodeCycleFn)()
CallOpcode(s, d) ==
    LET f == s.opfn IN
    CASE f = "ADC" -> ADC(s) [] f = "ANC" -> ANC(s) [] f = "AND" -> AND(s)
      [] f = "ASL" -> ASL(s) [] f = "BCC" -> BCC(s, d) [] f = "BCS" -> BCS(s, d)
      [] f = "BEQ" -> BEQ(s, d) [] f = "BIT" -> BIT(s) [] f = "BMI" -> BMI(s, d)
      [] f = "BNE" -> BNE(s, d) [] f = "BPL" -> BPL(s, d) [] f = "BVC" -> BVC(s, d)
      [] f = "BVS" -> BVS(s, d) [] f = "BRK" -> BRK(s) [] f = "CLC" -> CLC(s)
      [] f = "CLD" -> CLD(s) [] f = "CLI" -> CLI(s) [] f = "CLV" -> CLV(s)
      [] f = "CMP" -> CMP(s) [] f = "CPX" -> CPX(s) [] f = "CPY" -> CPY(s)
      [] f = "DEC" -> DEC(s) [] f = "DEX" -> DEX(s) [] f = "DEY" -> DEY(s)
      [] f = "EOR" -> EOR(s) [] f = "INC" -> INC(s) [] f = "INX" -> INX(s)
      [] f = "INY" -> INY(s) [] f = "JAM" -> JAM(s) [] f = "JMP" -> JMP(s)
      [] f = "JSR" -> JSR(s) [] f = "LDA" -> LDA(s) [] f = "LDX" -> LDX(s)
      [] f = "LDY" -> LDY(s) [] f = "LSR" -> LSR(s) [] f = "NOP" -> NOP(s)
      [] f = "ORA" -> ORA(s) [] f = "PHA" -> PHA(s) [] f = "PHP" -> PHP(s)
      [] f = "PLA" -> PLA(s, d) [] f = "PLP" -> PLP(s, d) [] f = "ROL" -> ROL(s)
      [] f = "ROR" -> ROR(s) [] f = "RTI" -> RTI(s) [] f = "RTS" -> RTS(s)
      [] f = "SBC" -> SBC(s) [] f = "SEC" -> SEC(s) [] f = "SED" -> SED(s)
      [] f = "SEI" -> SEI(s) [] f = "STA" -> STA(s) [] f = "STX" -> STX(s)
      [] f = "STY" -> STY(s) [] f = "TAX" -> TAX(s) [] f = "TAY" -> TAY(s)
      [] f = "TSX" -> TSX(s) [] f = "TXA" -> TXA(s) [] f = "TXS" -> TXS(s)
      [] f = "TYA" -> TYA(s) [] f = "ASR" -> ASR(s) [] f = "LXA" -> LXA(s)
      [] f = "ARR" -> ARR(s) [] f = "LAX" -> LAX(s) [] f = "LAS" -> LAS(s)
      [] f = "SAX" -> SAX(s) [] f = "SBX" -> SBX(s) [] f = "SHA" -> SHA(s)
      [] f = "SHY" -> SHY(s) [] f = "DCP" -> DCP(s) [] f = "ISB" -> ISB(s)
      [] f = "SLO" -> SLO(s) [] f = "RLA" -> RLA(s) [] f = "SRE" -> SRE(s)
      [] f = "RRA" -> RRA(s) [] f = "SHS" -> SHS(s) [] f = "SHX" -> SHX(s)
      [] f = "XAA" -> XAA(s)

\* ExecuteOpcode is the last statement of every stage that calls it: the stage
\* leaves the call in exec and the dispatcher makes it (RunOpcode) once the
\* stage's own statements are done.
ExecuteOpcode(s, d) == [s EXCEPT !.exec = "ExecuteOpcode"]

\* rel_5_8_T1 calls the opcode body and leaves addressModeCycleFn to it.
OpcodeCycleFn(s, d) == [s EXCEPT !.exec = "opcodeCycleFn"]

\* The call a stage left in exec: (this->*opcodeCycleFn)(), and for
\* ExecuteOpcode addressModeCycleFn = &M6502::InstructionFetch after it.
RunOpcode(r, d) ==
    LET n == [r EXCEPT !.exec = "none"]
    IN  IF r.exec = "ExecuteOpcode" THEN [CallOpcode(n, d) EXCEPT !.fn = "InstructionFetch"]
        ELSE IF r.exec = "opcodeCycleFn" THEN CallOpcode(n, d)
        ELSE r

-----------------------------------------------------------------------------
(* Address-mode stages: one operator per chain, one CASE arm per T-stage.  *)

\* BUS_READ(pc++)
ReadPCInc(s, d) == [BUS_READ(s, s.pc, d) EXCEPT !.pc = U16(s.pc + 1)]
\* ea = BUS_READ(pc++)
EaLo(s, d, next) == [ReadPCInc(s, d) EXCEPT !.ea = d, !.fn = next]
\* ea |= (BUS_READ(pc++) << 8)
EaHi(s, d, next) == [ReadPCInc(s, d) EXCEPT !.ea = BitOr(s.ea, d * 256), !.fn = next]
\* ia = BUS_READ(pc++)
IaLo(s, d, next) == [ReadPCInc(s, d) EXCEPT !.ia = d, !.fn = next]
\* BUS_READ(address) with the value discarded
Dummy(s, address, d, next) == [BUS_READ(s, address, d) EXCEPT !.fn = next]
\* value = BUS_READ(ea)
ValueRead(s, d) == [BUS_READ(s, s.ea, d) EXCEPT !.value = d]
\* A write-back cycle that writes the operand plus one.
WriteBack_Modified(s, next) == [dataBusWriteFn(s, s.ea, U8(s.value + 1)) EXCEPT !.fn = next]

\* dataBusWriteFn(ea, (uint8_t)value)
WriteBack(s, next) == [dataBusWriteFn(s, s.ea, U8(s.value)) EXCEPT !.fn = next]

sb_1(s, d)    == ExecuteOpcode([BUS_READ(s, s.pc, d) EXCEPT !.value = s.a], d)

\* An sb_jam that never leaves its stage.
sb_jam_Freezes(s, d) == BUS_READ(s, s.pc, d)

sb_jam(s, d)  == ExecuteOpcode(BUS_READ(s, s.pc, d), d)
imm_2_1(s, d) == ExecuteOpcode([ReadPCInc(s, d) EXCEPT !.value = d], d)

zp_2_1(s, d) ==
    CASE s.fn = "zp_2_1_T1" -> EaLo(s, d, "zp_2_1_T2")
      [] s.fn = "zp_2_1_T2" -> ExecuteOpcode(ValueRead(s, d), d)

zp_3_1(s, d) ==
    CASE s.fn = "zp_3_1_T1" -> EaLo(s, d, "zp_3_1_T2")
      [] s.fn = "zp_3_1_T2" -> ExecuteOpcode(s, d)

abs_2_3(s, d) ==
    CASE s.fn = "abs_2_3_T1" -> EaLo(s, d, "abs_2_3_T2")
      [] s.fn = "abs_2_3_T2" -> EaHi(s, d, "abs_2_3_T3")
      [] s.fn = "abs_2_3_T3" -> ExecuteOpcode(ValueRead(s, d), d)

abs_3_2(s, d) ==
    CASE s.fn = "abs_3_2_T1" -> EaLo(s, d, "abs_3_2_T2")
      [] s.fn = "abs_3_2_T2" -> EaHi(s, d, "abs_3_2_T3")
      [] s.fn = "abs_3_2_T3" -> ExecuteOpcode(s, d)

\* T3: ia = (ia + x) & 0xff; ea = BUS_READ(ia++)
IdxT3(s, d, next) ==
    LET i == BitAnd(s.ia + s.x, 255)
    IN [BUS_READ(s, i, d) EXCEPT !.ia = i + 1, !.ea = d, !.fn = next]
\* T4 with the pointer address left unmasked.
IdxT4_NoMask(s, d, next) ==
    [BUS_READ(s, s.ia, d) EXCEPT !.ea = BitOr(s.ea, d * 256), !.fn = next]

\* T4: ea |= (BUS_READ(ia & 0xff) << 8)
IdxT4(s, d, next) ==
    [BUS_READ(s, BitAnd(s.ia, 255), d) EXCEPT !.ea = BitOr(s.ea, d * 256), !.fn = next]

idx_2_4(s, d) ==
    CASE s.fn = "idx_2_4_T1" -> IaLo(s, d, "idx_2_4_T2")
      [] s.fn = "idx_2_4_T2" -> Dummy(s, s.ia, d, "idx_2_4_T3")
      [] s.fn = "idx_2_4_T3" -> IdxT3(s, d, "idx_2_4_T4")
      [] s.fn = "idx_2_4_T4" -> IdxT4(s, d, "idx_2_4_T5")
      [] s.fn = "idx_2_4_T5" -> ExecuteOpcode(ValueRead(s, d), d)

idx_3_3(s, d) ==
    CASE s.fn = "idx_3_3_T1" -> IaLo(s, d, "idx_3_3_T2")
      [] s.fn = "idx_3_3_T2" -> Dummy(s, s.ia, d, "idx_3_3_T3")
      [] s.fn = "idx_3_3_T3" -> IdxT3(s, d, "idx_3_3_T4")
      [] s.fn = "idx_3_3_T4" -> IdxT4(s, d, "idx_3_3_T5")
      [] s.fn = "idx_3_3_T5" -> ExecuteOpcode(s, d)

idx_Undoc(s, d) ==
    CASE s.fn = "idx_Undoc_T1" -> IaLo(s, d, "idx_Undoc_T2")
      [] s.fn = "idx_Undoc_T2" -> Dummy(s, s.ia, d, "idx_Undoc_T3")
      [] s.fn = "idx_Undoc_T3" -> IdxT3(s, d, "idx_Undoc_T4")
      [] s.fn = "idx_Undoc_T4" -> IdxT4(s, d, "idx_Undoc_T5")
      [] s.fn = "idx_Undoc_T5" -> [ValueRead(s, d) EXCEPT !.fn = "idx_Undoc_T6"]
      [] s.fn = "idx_Undoc_T6" -> WriteBack(s, "idx_Undoc_T7")
      [] s.fn = "idx_Undoc_T7" -> ExecuteOpcode(s, d)

\* absx_2_5_T3 / absy_2_5_T3 / idy_2_7_T4: on a page cross a dummy read of the
\* wrong-page address and one more cycle, else the operand read and the opcode.
IndexedReadT3(s, d, index, next) ==
    LET full == U16(s.ea + index)
    IN  IF BitAnd(s.ea, 255) + index > 255
        THEN [BUS_READ(s, BitOr(BitAnd(s.ea, 65280), BitAnd(full, 255)), d)
                 EXCEPT !.ea = full, !.fn = next]
        ELSE ExecuteOpcode(ValueRead([s EXCEPT !.ea = full], d), d)

\* An absolute,X read whose T4 reads the operand a page below the carried address.
absx_2_5_NoCarryT4(s, d) ==
    CASE s.fn = "absx_2_5_T1" -> EaLo(s, d, "absx_2_5_T2")
      [] s.fn = "absx_2_5_T2" -> EaHi(s, d, "absx_2_5_T3")
      [] s.fn = "absx_2_5_T3" -> IndexedReadT3(s, d, s.x, "absx_2_5_T4")
      [] s.fn = "absx_2_5_T4" ->
            ExecuteOpcode(ValueRead([s EXCEPT !.ea = U16(s.ea + 65280)], d), d)

absx_2_5(s, d) ==
    CASE s.fn = "absx_2_5_T1" -> EaLo(s, d, "absx_2_5_T2")
      [] s.fn = "absx_2_5_T2" -> EaHi(s, d, "absx_2_5_T3")
      [] s.fn = "absx_2_5_T3" -> IndexedReadT3(s, d, s.x, "absx_2_5_T4")
      [] s.fn = "absx_2_5_T4" -> ExecuteOpcode(ValueRead(s, d), d)

absx_3_4(s, d) ==
    CASE s.fn = "absx_3_4_T1" -> EaLo(s, d, "absx_3_4_T2")
      [] s.fn = "absx_3_4_T2" -> EaHi(s, d, "absx_3_4_T3")
      [] s.fn = "absx_3_4_T3" ->
            [BUS_READ(s, s.ea, d) EXCEPT !.ea = U16(s.ea + s.x), !.fn = "absx_3_4_T4"]
      [] s.fn = "absx_3_4_T4" -> ExecuteOpcode(s, d)

absy_2_5(s, d) ==
    CASE s.fn = "absy_2_5_T1" -> EaLo(s, d, "absy_2_5_T2")
      [] s.fn = "absy_2_5_T2" -> EaHi(s, d, "absy_2_5_T3")
      [] s.fn = "absy_2_5_T3" -> IndexedReadT3(s, d, s.y, "absy_2_5_T4")
      [] s.fn = "absy_2_5_T4" -> ExecuteOpcode(ValueRead(s, d), d)

absy_3_4(s, d) ==
    CASE s.fn = "absy_3_4_T1" -> EaLo(s, d, "absy_3_4_T2")
      [] s.fn = "absy_3_4_T2" -> EaHi(s, d, "absy_3_4_T3")
      [] s.fn = "absy_3_4_T3" ->
            [BUS_READ(s, s.ea, d) EXCEPT !.ea = U16(s.ea + s.y), !.fn = "absy_3_4_T4"]
      [] s.fn = "absy_3_4_T4" -> ExecuteOpcode(s, d)

\* T2: BUS_READ(ea);  T3: ea = (ea + index) & 0xFF
zpx_2_6(s, d) ==
    CASE s.fn = "zpx_2_6_T1" -> EaLo(s, d, "zpx_2_6_T2")
      [] s.fn = "zpx_2_6_T2" -> Dummy(s, s.ea, d, "zpx_2_6_T3")
      [] s.fn = "zpx_2_6_T3" ->
            ExecuteOpcode(ValueRead([s EXCEPT !.ea = BitAnd(s.ea + s.x, 255)], d), d)

zpx_3_5(s, d) ==
    CASE s.fn = "zpx_3_5_T1" -> EaLo(s, d, "zpx_3_5_T2")
      [] s.fn = "zpx_3_5_T2" -> Dummy(s, s.ea, d, "zpx_3_5_T3")
      [] s.fn = "zpx_3_5_T3" -> ExecuteOpcode([s EXCEPT !.ea = BitAnd(s.ea + s.x, 255)], d)

zpy_2_6(s, d) ==
    CASE s.fn = "zpy_2_6_T1" -> EaLo(s, d, "zpy_2_6_T2")
      [] s.fn = "zpy_2_6_T2" -> Dummy(s, s.ea, d, "zpy_2_6_T3")
      [] s.fn = "zpy_2_6_T3" ->
            ExecuteOpcode(ValueRead([s EXCEPT !.ea = BitAnd(s.ea + s.y, 255)], d), d)

zpy_3_5(s, d) ==
    CASE s.fn = "zpy_3_5_T1" -> EaLo(s, d, "zpy_3_5_T2")
      [] s.fn = "zpy_3_5_T2" -> Dummy(s, s.ea, d, "zpy_3_5_T3")
      [] s.fn = "zpy_3_5_T3" -> ExecuteOpcode([s EXCEPT !.ea = BitAnd(s.ea + s.y, 255)], d)

\* T2: ea = BUS_READ(ia++)
IdyT2(s, d, next) == [BUS_READ(s, s.ia, d) EXCEPT !.ea = d, !.ia = U16(s.ia + 1), !.fn = next]
\* T4 of the write and undocumented forms: ea += y; BUS_READ(ea)
IdyT4(s, d, next) ==
    LET e == U16(s.ea + s.y) IN [BUS_READ(s, e, d) EXCEPT !.ea = e, !.fn = next]

idy_2_7(s, d) ==
    CASE s.fn = "idy_2_7_T1" -> IaLo(s, d, "idy_2_7_T2")
      [] s.fn = "idy_2_7_T2" -> IdyT2(s, d, "idy_2_7_T3")
      [] s.fn = "idy_2_7_T3" -> IdxT4(s, d, "idy_2_7_T4")
      [] s.fn = "idy_2_7_T4" -> IndexedReadT3(s, d, s.y, "idy_2_7_T5")
      [] s.fn = "idy_2_7_T5" -> ExecuteOpcode(ValueRead(s, d), d)

idy_3_6(s, d) ==
    CASE s.fn = "idy_3_6_T1" -> IaLo(s, d, "idy_3_6_T2")
      [] s.fn = "idy_3_6_T2" -> IdyT2(s, d, "idy_3_6_T3")
      [] s.fn = "idy_3_6_T3" -> IdxT4(s, d, "idy_3_6_T4")
      [] s.fn = "idy_3_6_T4" -> IdyT4(s, d, "idy_3_6_T5")
      [] s.fn = "idy_3_6_T5" -> ExecuteOpcode(s, d)

idy_Undoc(s, d) ==
    CASE s.fn = "idy_Undoc_T1" -> IaLo(s, d, "idy_Undoc_T2")
      [] s.fn = "idy_Undoc_T2" -> IdyT2(s, d, "idy_Undoc_T3")
      [] s.fn = "idy_Undoc_T3" -> IdxT4(s, d, "idy_Undoc_T4")
      [] s.fn = "idy_Undoc_T4" -> IdyT4(s, d, "idy_Undoc_T5")
      [] s.fn = "idy_Undoc_T5" -> [ValueRead(s, d) EXCEPT !.fn = "idy_Undoc_T6"]
      [] s.fn = "idy_Undoc_T6" -> WriteBack(s, "idy_Undoc_T7")
      [] s.fn = "idy_Undoc_T7" -> ExecuteOpcode(s, d)

zp_4_1(s, d) ==
    CASE s.fn = "zp_4_1_T1" -> EaLo(s, d, "zp_4_1_T2")
      [] s.fn = "zp_4_1_T2" -> [ValueRead(s, d) EXCEPT !.fn = "zp_4_1_T3"]
      [] s.fn = "zp_4_1_T3" -> WriteBack(s, "zp_4_1_T4")
      [] s.fn = "zp_4_1_T4" -> ExecuteOpcode(s, d)

abs_4_2(s, d) ==
    CASE s.fn = "abs_4_2_T1" -> EaLo(s, d, "abs_4_2_T2")
      [] s.fn = "abs_4_2_T2" -> EaHi(s, d, "abs_4_2_T3")
      [] s.fn = "abs_4_2_T3" -> [ValueRead(s, d) EXCEPT !.fn = "abs_4_2_T4"]
      [] s.fn = "abs_4_2_T4" -> WriteBack(s, "abs_4_2_T5")
      [] s.fn = "abs_4_2_T5" -> ExecuteOpcode(s, d)

zpx_4_3(s, d) ==
    CASE s.fn = "zpx_4_3_T1" -> EaLo(s, d, "zpx_4_3_T2")
      [] s.fn = "zpx_4_3_T2" -> Dummy(s, s.ea, d, "zpx_4_3_T3")
      [] s.fn = "zpx_4_3_T3" ->
            [ValueRead([s EXCEPT !.ea = BitAnd(s.ea + s.x, 255)], d) EXCEPT !.fn = "zpx_4_3_T4"]
      [] s.fn = "zpx_4_3_T4" -> WriteBack(s, "zpx_4_3_T5")
      [] s.fn = "zpx_4_3_T5" -> ExecuteOpcode(s, d)

absx_4_4(s, d) ==
    CASE s.fn = "absx_4_4_T1" -> EaLo(s, d, "absx_4_4_T2")
      [] s.fn = "absx_4_4_T2" -> EaHi(s, d, "absx_4_4_T3")
      [] s.fn = "absx_4_4_T3" ->
            LET e == U16(s.ea + s.x)
            IN [BUS_READ(s, e, d) EXCEPT !.ea = e, !.fn = "absx_4_4_T4"]
      [] s.fn = "absx_4_4_T4" -> [ValueRead(s, d) EXCEPT !.fn = "absx_4_4_T5"]
      [] s.fn = "absx_4_4_T5" -> WriteBack(s, "absx_4_4_T6")
      [] s.fn = "absx_4_4_T6" -> ExecuteOpcode(s, d)

absy_4_4(s, d) ==
    CASE s.fn = "absy_4_4_T1" -> EaLo(s, d, "absy_4_4_T2")
      [] s.fn = "absy_4_4_T2" -> EaHi(s, d, "absy_4_4_T3")
      [] s.fn = "absy_4_4_T3" ->
            LET e == U16(s.ea + s.y)
            IN [BUS_READ(s, e, d) EXCEPT !.ea = e, !.fn = "absy_4_4_T4"]
      [] s.fn = "absy_4_4_T4" -> [ValueRead(s, d) EXCEPT !.fn = "absy_4_4_T5"]
      [] s.fn = "absy_4_4_T5" -> WriteBack(s, "absy_4_4_T6")
      [] s.fn = "absy_4_4_T6" -> ExecuteOpcode(s, d)

ph_5_1(s, d) ==
    CASE s.fn = "ph_5_1_T1" -> Dummy(s, s.pc, d, "ph_5_1_T2")
      [] s.fn = "ph_5_1_T2" -> ExecuteOpcode(s, d)

\* A pull chain without the dummy stack read of T2.
pl_5_2_NoT2(s, d) ==
    CASE s.fn = "pl_5_2_T1" -> Dummy(s, s.pc, d, "pl_5_2_T3")
      [] s.fn = "pl_5_2_T2" -> Dummy(s, 256 + s.sp, d, "pl_5_2_T3")
      [] s.fn = "pl_5_2_T3" -> ExecuteOpcode(s, d)

pl_5_2(s, d) ==
    CASE s.fn = "pl_5_2_T1" -> Dummy(s, s.pc, d, "pl_5_2_T2")
      [] s.fn = "pl_5_2_T2" -> Dummy(s, 256 + s.sp, d, "pl_5_2_T3")
      [] s.fn = "pl_5_2_T3" -> ExecuteOpcode(s, d)

jsr_5_3(s, d) ==
    CASE s.fn = "jsr_5_3_T1" -> EaLo(s, d, "jsr_5_3_T2")
      [] s.fn = "jsr_5_3_T2" -> Dummy(s, 256 + s.sp, d, "jsr_5_3_T3")
      [] s.fn = "jsr_5_3_T3" -> [Push(s, Hi(s.pc)) EXCEPT !.fn = "jsr_5_3_T4"]
      [] s.fn = "jsr_5_3_T4" -> [Push(s, Lo(s.pc)) EXCEPT !.fn = "jsr_5_3_T5"]
      [] s.fn = "jsr_5_3_T5" ->
            LET e == BitOr(s.ea, d * 256)
            IN ExecuteOpcode([BUS_READ(s, s.pc, d) EXCEPT !.ea = e, !.pc = e], d)

rti_5_5(s, d) ==
    CASE s.fn = "rti_5_5_T1" -> [ReadPCInc(s, d) EXCEPT !.fn = "rti_5_5_T2"]
      [] s.fn = "rti_5_5_T2" -> Dummy(s, 256 + s.sp, d, "rti_5_5_T3")
      [] s.fn = "rti_5_5_T3" -> [Pull(s, d) EXCEPT !.status = d, !.fn = "rti_5_5_T4"]
      [] s.fn = "rti_5_5_T4" -> [Pull(s, d) EXCEPT !.pc = d, !.fn = "rti_5_5_T5"]
      [] s.fn = "rti_5_5_T5" -> ExecuteOpcode([Pull(s, d) EXCEPT !.pc = BitOr(s.pc, d * 256)], d)

abs5_6_1(s, d) ==
    CASE s.fn = "abs5_6_1_T1" -> EaLo(s, d, "abs5_6_1_T2")
      [] s.fn = "abs5_6_1_T2" ->
            ExecuteOpcode([ReadPCInc(s, d) EXCEPT !.ea = BitOr(s.ea, d * 256)], d)

abs5_6_2(s, d) ==
    CASE s.fn = "abs5_6_2_T1" -> IaLo(s, d, "abs5_6_2_T2")
      [] s.fn = "abs5_6_2_T2" ->
            [ReadPCInc(s, d) EXCEPT !.ia = BitOr(s.ia, d * 256), !.fn = "abs5_6_2_T3"]
      [] s.fn = "abs5_6_2_T3" ->
            [BUS_READ(s, s.ia, d) EXCEPT !.ea = d, !.ia = U16(s.ia + 1), !.fn = "abs5_6_2_T4"]
      [] s.fn = "abs5_6_2_T4" ->
            ExecuteOpcode([BUS_READ(s, s.ia, d) EXCEPT !.ea = BitOr(s.ea, d * 256)], d)

\* An rts_5_7 whose last stage does not step over the JSR operand.
rts_5_7_NoIncrement(s, d) ==
    CASE s.fn = "rts_5_7_T1" -> [ReadPCInc(s, d) EXCEPT !.fn = "rts_5_7_T2"]
      [] s.fn = "rts_5_7_T2" -> Dummy(s, 256 + s.sp, d, "rts_5_7_T3")
      [] s.fn = "rts_5_7_T3" -> [Pull(s, d) EXCEPT !.pc = d, !.fn = "rts_5_7_T4"]
      [] s.fn = "rts_5_7_T4" -> [Pull(s, d) EXCEPT !.pc = BitOr(s.pc, d * 256), !.fn = "rts_5_7_T5"]
      [] s.fn = "rts_5_7_T5" -> ExecuteOpcode(BUS_READ(s, s.pc, d), d)

rts_5_7(s, d) ==
    CASE s.fn = "rts_5_7_T1" -> [ReadPCInc(s, d) EXCEPT !.fn = "rts_5_7_T2"]
      [] s.fn = "rts_5_7_T2" -> Dummy(s, 256 + s.sp, d, "rts_5_7_T3")
      [] s.fn = "rts_5_7_T3" -> [Pull(s, d) EXCEPT !.pc = d, !.fn = "rts_5_7_T4"]
      [] s.fn = "rts_5_7_T4" -> [Pull(s, d) EXCEPT !.pc = BitOr(s.pc, d * 256), !.fn = "rts_5_7_T5"]
      [] s.fn = "rts_5_7_T5" -> ExecuteOpcode([BUS_READ(s, s.pc, d) EXCEPT !.pc = U16(s.pc + 1)], d)

\* rel_5_8_T2: dummy read at the un-carried target; a page cross corrects pc and
\* takes one more cycle, else the 3-cycle branch ends and masks the next poll.
rel_5_8_T2(s, d) ==
    LET target == U16(s.ia + s.ea)
        r == BUS_READ(s, s.pc, d)
    IN  IF BitAnd(target, 65280) # BitAnd(s.ia, 65280)
        THEN [r EXCEPT !.pc = target, !.fn = "rel_5_8_T3"]
        ELSE [r EXCEPT !.BranchTakenMaskingInterrupt = TRUE, !.fn = "InstructionFetch"]

\* A branch chain whose T3 sets BranchTakenMaskingInterrupt as well.
rel_5_8_T3Masks(s, d) ==
    CASE s.fn = "rel_5_8_T1" -> OpcodeCycleFn(s, d)
      [] s.fn = "rel_5_8_T2" -> rel_5_8_T2(s, d)
      [] s.fn = "rel_5_8_T3" ->
            [Dummy(s, s.pc, d, "InstructionFetch") EXCEPT !.BranchTakenMaskingInterrupt = TRUE]

rel_5_8(s, d) ==
    CASE s.fn = "rel_5_8_T1" -> OpcodeCycleFn(s, d)
      [] s.fn = "rel_5_8_T2" -> rel_5_8_T2(s, d)
      [] s.fn = "rel_5_8_T3" -> Dummy(s, s.pc, d, "InstructionFetch")

\* brk_5_4_T4: push the status with B set, set I; an NMI latched since the
\* sequence began takes the vector.
brk_5_4_T4(s) ==
    LET p == SetI(Push(s, BitOr(s.status, FLAG_BREAK)))
    IN [p EXCEPT !.fn = IF cfg.SUPPORT_NMI /\ s.NMIPending THEN "NMI_T5" ELSE "brk_5_4_T5"]

brk_5_4(s, d) ==
    CASE s.fn = "brk_5_4_T1" -> [BUS_READ(s, s.pc, d) EXCEPT !.pc = U16(s.pc + 1), !.fn = "brk_5_4_T2"]
      [] s.fn = "brk_5_4_T2" -> [Push(s, Hi(s.pc)) EXCEPT !.fn = "brk_5_4_T3"]
      [] s.fn = "brk_5_4_T3" -> [Push(s, Lo(s.pc)) EXCEPT !.fn = "brk_5_4_T4"]
      [] s.fn = "brk_5_4_T4" -> brk_5_4_T4(s)
      [] s.fn = "brk_5_4_T5" -> [BUS_READ(s, 65534, d) EXCEPT !.ea = d, !.fn = "brk_5_4_T6"]
      [] s.fn = "brk_5_4_T6" ->
            ExecuteOpcode([SetI(BUS_READ(s, 65535, d)) EXCEPT !.pc = BitOr(s.ea, d * 256)], d)

\* A reset stack cycle that pushes the status instead of reading.
StackReadDec_Writes(s, d, next) ==
    [dataBusWriteFn(s, 256 + s.sp, s.status) EXCEPT !.sp = U8(s.sp + 255), !.fn = next]

\* Reset_T2..T4: BUS_READ(0x100 + sp--)
StackReadDec(s, d, next) ==
    [BUS_READ(s, 256 + s.sp, d) EXCEPT !.sp = U8(s.sp + 255), !.fn = next]

\* A reset sequence whose T5 reads the IRQ vector instead of $FFFC.
Reset_T_WrongVector(s, d) ==
    CASE s.fn = "Reset_T0" -> [BUS_READ([s EXCEPT !.sp = 0], s.pc, d) EXCEPT !.fn = "Reset_T1"]
      [] s.fn = "Reset_T1" -> Dummy(s, s.pc, d, "Reset_T2")
      [] s.fn = "Reset_T2" -> StackReadDec(s, d, "Reset_T3")
      [] s.fn = "Reset_T3" -> StackReadDec(s, d, "Reset_T4")
      [] s.fn = "Reset_T4" -> StackReadDec(ClearB(s), d, "Reset_T5")
      [] s.fn = "Reset_T5" -> [BUS_READ(s, 65534, d) EXCEPT !.ea = d, !.fn = "Reset_T6"]
      [] s.fn = "Reset_T6" ->
            [BUS_READ(s, 65533, d) EXCEPT !.pc = BitOr(s.ea, d * 256), !.fn = "InstructionFetch"]

Reset_T(s, d) ==
    CASE s.fn = "Reset_T0" -> [BUS_READ([s EXCEPT !.sp = 0], s.pc, d) EXCEPT !.fn = "Reset_T1"]
      [] s.fn = "Reset_T1" -> Dummy(s, s.pc, d, "Reset_T2")
      [] s.fn = "Reset_T2" -> StackReadDec(s, d, "Reset_T3")
      [] s.fn = "Reset_T3" -> StackReadDec(s, d, "Reset_T4")
      [] s.fn = "Reset_T4" -> StackReadDec(ClearB(s), d, "Reset_T5")
      [] s.fn = "Reset_T5" -> [BUS_READ(s, 65532, d) EXCEPT !.ea = d, !.fn = "Reset_T6"]
      [] s.fn = "Reset_T6" ->
            [BUS_READ(s, 65533, d) EXCEPT !.pc = BitOr(s.ea, d * 256), !.fn = "InstructionFetch"]

\* An NMI sequence whose T6 leaves NMIPending set.
NMI_T_KeepsPending(s, d) ==
    CASE s.fn = "NMI_T1" -> Dummy(s, s.pc, d, "NMI_T2")
      [] s.fn = "NMI_T2" -> [Push(s, Hi(s.pc)) EXCEPT !.fn = "NMI_T3"]
      [] s.fn = "NMI_T3" -> [Push(s, Lo(s.pc)) EXCEPT !.fn = "NMI_T4"]
      [] s.fn = "NMI_T4" ->
            LET c == ClearB(s) IN [SetI(Push(c, c.status)) EXCEPT !.fn = "NMI_T5"]
      [] s.fn = "NMI_T5" -> [BUS_READ(s, 65530, d) EXCEPT !.ea = d, !.fn = "NMI_T6"]
      [] s.fn = "NMI_T6" ->
            [SetI(BUS_READ(s, 65531, d)) EXCEPT !.pc = BitOr(s.ea, d * 256),
                                                !.fn = "InstructionFetch"]

\* An NMI sequence whose T5 reads the IRQ vector instead of $FFFA.
NMI_T_IrqVector(s, d) ==
    CASE s.fn = "NMI_T1" -> Dummy(s, s.pc, d, "NMI_T2")
      [] s.fn = "NMI_T2" -> [Push(s, Hi(s.pc)) EXCEPT !.fn = "NMI_T3"]
      [] s.fn = "NMI_T3" -> [Push(s, Lo(s.pc)) EXCEPT !.fn = "NMI_T4"]
      [] s.fn = "NMI_T4" ->
            LET c == ClearB(s) IN [SetI(Push(c, c.status)) EXCEPT !.fn = "NMI_T5"]
      [] s.fn = "NMI_T5" -> [BUS_READ(s, 65534, d) EXCEPT !.ea = d, !.fn = "NMI_T6"]
      [] s.fn = "NMI_T6" ->
            [SetI(BUS_READ(s, 65531, d)) EXCEPT !.pc = BitOr(s.ea, d * 256),
                                                !.NMIPending = FALSE,
                                                !.fn = "InstructionFetch"]

NMI_T(s, d) ==
    CASE s.fn = "NMI_T1" -> Dummy(s, s.pc, d, "NMI_T2")
      [] s.fn = "NMI_T2" -> [Push(s, Hi(s.pc)) EXCEPT !.fn = "NMI_T3"]
      [] s.fn = "NMI_T3" -> [Push(s, Lo(s.pc)) EXCEPT !.fn = "NMI_T4"]
      [] s.fn = "NMI_T4" ->
            LET c == ClearB(s) IN [SetI(Push(c, c.status)) EXCEPT !.fn = "NMI_T5"]
      [] s.fn = "NMI_T5" -> [BUS_READ(s, 65530, d) EXCEPT !.ea = d, !.fn = "NMI_T6"]
      [] s.fn = "NMI_T6" ->
            [SetI(BUS_READ(s, 65531, d)) EXCEPT !.pc = BitOr(s.ea, d * 256),
                                                !.NMIPending = FALSE,
                                                !.fn = "InstructionFetch"]

\* IRQ_T4: push the status with B clear, set I; an NMI latched since the sequence
\* began takes the vector.
IRQ_T4(s) ==
    LET c == ClearB(s)
        p == SetI(Push(c, c.status))
    IN [p EXCEPT !.fn = IF cfg.SUPPORT_NMI /\ s.NMIPending THEN "NMI_T5" ELSE "IRQ_T5"]

\* An IRQ sequence that pushes the low byte of pc + 1.
IRQ_T_PushesNext(s, d) ==
    CASE s.fn = "IRQ_T1" -> Dummy(s, s.pc, d, "IRQ_T2")
      [] s.fn = "IRQ_T2" -> [Push(s, Hi(s.pc)) EXCEPT !.fn = "IRQ_T3"]
      [] s.fn = "IRQ_T3" -> [Push(s, Lo(s.pc + 1)) EXCEPT !.fn = "IRQ_T4"]
      [] s.fn = "IRQ_T4" -> IRQ_T4(s)
      [] s.fn = "IRQ_T5" -> [BUS_READ(s, 65534, d) EXCEPT !.ea = d, !.fn = "IRQ_T6"]
      [] s.fn = "IRQ_T6" ->
            [SetI(BUS_READ(s, 65535, d)) EXCEPT !.pc = BitOr(s.ea, d * 256),
                                                !.fn = "InstructionFetchIRQ"]

IRQ_T(s, d) ==
    CASE s.fn = "IRQ_T1" -> Dummy(s, s.pc, d, "IRQ_T2")
      [] s.fn = "IRQ_T2" -> [Push(s, Hi(s.pc)) EXCEPT !.fn = "IRQ_T3"]
      [] s.fn = "IRQ_T3" -> [Push(s, Lo(s.pc)) EXCEPT !.fn = "IRQ_T4"]
      [] s.fn = "IRQ_T4" -> IRQ_T4(s)
      [] s.fn = "IRQ_T5" -> [BUS_READ(s, 65534, d) EXCEPT !.ea = d, !.fn = "IRQ_T6"]
      [] s.fn = "IRQ_T6" ->
            [SetI(BUS_READ(s, 65535, d)) EXCEPT !.pc = BitOr(s.ea, d * 256),
                                                !.fn = "InstructionFetchIRQ"]

-----------------------------------------------------------------------------
(* Interrupt lines, instruction fetch and the dispatcher                   *)

\* Interrupt::IsAsserted / Assert / Release on a line (a BOOLEAN).
\* An IsAsserted that never sees the line asserted.
IsAsserted_Never(line) == FALSE

IsAsserted(line)  == line
Interrupt_Assert  == TRUE
Interrupt_Release == FALSE

\* An IRQDisabled that ignores the I flag.
IRQDisabled_Never(s) == FALSE

IRQDisabled(s) == BitAnd(s.status, FLAG_INTERRUPT) # 0
SYNC(s)        == s.fn = "InstructionFetch"

\* opcode = BUS_READ(pc++); look up the opcode body and the T1 stage.
FetchOpcode(s, d) ==
    [ReadPCInc(s, d) EXCEPT !.opcode = d,
                            !.opfn = opcodeFunctions[d + 1],
                            !.fn = T1AddressModeFunctions[d + 1]]

\* InstructionFetch: poll the interrupts, then either enter an interrupt
\* sequence (dummy read of pc) or fetch the opcode.  The masking latches last
\* for one poll.
InstructionFetch(s, d) ==
    LET takeNMI == cfg.SUPPORT_NMI /\ s.NMIPending
        takeIRQ == /\ IsAsserted(s.IRQ)
                   /\ ~IRQDisabled(s)
                   /\ ~s.CLIMaskingInterrupt
                   /\ ~s.BranchTakenMaskingInterrupt
        c == [s EXCEPT !.CLIMaskingInterrupt = FALSE,
                       !.BranchTakenMaskingInterrupt = FALSE,
                       !.IRQPending = ~takeNMI /\ takeIRQ]
    IN  IF takeNMI THEN Dummy(c, s.pc, d, "NMI_T1")
        ELSE IF takeIRQ THEN Dummy(c, s.pc, d, "IRQ_T1")
        ELSE FetchOpcode(c, d)

\* InstructionFetchIRQ: the fetch that follows an IRQ sequence; no poll.
InstructionFetchIRQ(s, d) == FetchOpcode(s, d)

\* The stage functions of each chain: <<chain, number of T-stages>>.
ChainTable ==
    {<<"rel_5_8", 3>>, <<"zp_2_1", 2>>, <<"zp_3_1", 2>>, <<"abs_2_3", 3>>,
     <<"abs_3_2", 3>>, <<"idx_2_4", 5>>, <<"idx_3_3", 5>>, <<"idx_Undoc", 7>>,
     <<"absx_2_5", 4>>, <<"absx_3_4", 4>>, <<"absy_2_5", 4>>, <<"absy_3_4", 4>>,
     <<"zpx_2_6", 3>>, <<"zpx_3_5", 3>>, <<"zpy_2_6", 3>>, <<"zpy_3_5", 3>>,
     <<"idy_2_7", 5>>, <<"idy_3_6", 5>>, <<"idy_Undoc", 7>>, <<"zp_4_1", 4>>,
     <<"abs_4_2", 5>>, <<"zpx_4_3", 5>>, <<"absx_4_4", 6>>, <<"absy_4_4", 6>>,
     <<"ph_5_1", 2>>, <<"pl_5_2", 3>>, <<"jsr_5_3", 5>>, <<"rti_5_5", 5>>,
     <<"abs5_6_1", 2>>, <<"abs5_6_2", 4>>, <<"rts_5_7", 5>>, <<"brk_5_4", 6>>,
     <<"sb_1", 1>>, <<"sb_jam", 1>>, <<"imm_2_1", 1>>, <<"NMI", 6>>,
     <<"IRQ", 6>>}

StagesOf(chain, n) == {chain \o "_T" \o ToString(i) : i \in 1..n}

\* The chain each stage function belongs to.
ChainOf ==
    [f \in UNION {StagesOf(c[1], c[2]) : c \in ChainTable \cup {<<"Reset", 6>>}} \cup {"Reset_T0"} |->
        IF f = "Reset_T0" THEN "Reset"
        ELSE (CHOOSE c \in ChainTable \cup {<<"Reset", 6>>} : f \in StagesOf(c[1], c[2]))[1]]

\* (this->*addressModeCycleFn)()
addressModeCycleFn(s, d) ==
    IF s.fn = "InstructionFetch" THEN InstructionFetch(s, d)
    ELSE IF s.fn = "InstructionFetchIRQ" THEN InstructionFetchIRQ(s, d)
    ELSE LET c == ChainOf[s.fn] IN
    CASE c = "sb_1" -> sb_1(s, d)
      [] c = "sb_jam" -> sb_jam(s, d)
      [] c = "imm_2_1" -> imm_2_1(s, d)
      [] c = "rel_5_8" -> rel_5_8(s, d)
      [] c = "zp_2_1" -> zp_2_1(s, d)
      [] c = "zp_3_1" -> zp_3_1(s, d)
      [] c = "abs_2_3" -> abs_2_3(s, d)
      [] c = "abs_3_2" -> abs_3_2(s, d)
      [] c = "idx_2_4" -> idx_2_4(s, d)
      [] c = "idx_3_3" -> idx_3_3(s, d)
      [] c = "idx_Undoc" -> idx_Undoc(s, d)
      [] c = "absx_2_5" -> absx_2_5(s, d)
      [] c = "absx_3_4" -> absx_3_4(s, d)
      [] c = "absy_2_5" -> absy_2_5(s, d)
      [] c = "absy_3_4" -> absy_3_4(s, d)
      [] c = "zpx_2_6" -> zpx_2_6(s, d)
      [] c = "zpx_3_5" -> zpx_3_5(s, d)
      [] c = "zpy_2_6" -> zpy_2_6(s, d)
      [] c = "zpy_3_5" -> zpy_3_5(s, d)
      [] c = "idy_2_7" -> idy_2_7(s, d)
      [] c = "idy_3_6" -> idy_3_6(s, d)
      [] c = "idy_Undoc" -> idy_Undoc(s, d)
      [] c = "zp_4_1" -> zp_4_1(s, d)
      [] c = "abs_4_2" -> abs_4_2(s, d)
      [] c = "zpx_4_3" -> zpx_4_3(s, d)
      [] c = "absx_4_4" -> absx_4_4(s, d)
      [] c = "absy_4_4" -> absy_4_4(s, d)
      [] c = "ph_5_1" -> ph_5_1(s, d)
      [] c = "pl_5_2" -> pl_5_2(s, d)
      [] c = "jsr_5_3" -> jsr_5_3(s, d)
      [] c = "rti_5_5" -> rti_5_5(s, d)
      [] c = "abs5_6_1" -> abs5_6_1(s, d)
      [] c = "abs5_6_2" -> abs5_6_2(s, d)
      [] c = "rts_5_7" -> rts_5_7(s, d)
      [] c = "brk_5_4" -> brk_5_4(s, d)
      [] c = "Reset" -> Reset_T(s, d)
      [] c = "NMI" -> NMI_T(s, d)
      [] c = "IRQ" -> IRQ_T(s, d)

\* One stage and the opcode body it calls.
Dispatch(s, d) == RunOpcode(addressModeCycleFn(s, d), d)

\* T5 and T6 of a BRK or IRQ sequence: "Short burts of interrupt assertions
\* will be correctly masked by the BRK in these 2 cycles", and by the IRQ
\* likewise.  The NMI line is not looked at while one of them runs: an
\* assertion that is over before the next fetch leaves no trace, one that
\* lasts is latched by the Step of that fetch.
MaskingStages == {"brk_5_4_T5", "brk_5_4_T6", "IRQ_T5", "IRQ_T6"}

\* Does the Step that starts in s look at the NMI line?
NMISampled(s) == cfg.SUPPORT_NMI /\ s.fn \notin MaskingStages

\* Does the Step that starts in s find the line asserted after it had found it
\* released?  The latch is set "the cycle NMI transitions from released to
\* asserted", for which Step has to keep the level it found the last time it
\* looked.  The class declares no member for that level (Interrupt holds only
\* the present one), so where m6502.cpp keeps it is not known; it is
\* nmiAtLastStep here.
NMIEdge(s) == NMISampled(s) /\ IsAsserted(s.NMI) /\ ~s.nmiAtLastStep

\* M6502::Step: latch a released-to-asserted NMI transition, then run the
\* current stage.  The accesses of this cycle start from an empty list.  A
\* cycle that BusRead halted has issued its read and advances nothing.
M6502_Step(s, d) ==
    LET c == [s EXCEPT !.bus = << >>,
                       !.NMIPending = @ \/ NMIEdge(s),
                       !.nmiAtLastStep = IF NMISampled(s) THEN IsAsserted(s.NMI) ELSE @,
                       !.RDYHalted = FALSE]
        r == Dispatch(c, d)
    IN  IF r.RDYHalted THEN [c EXCEPT !.bus = r.bus, !.RDYHalted = TRUE] ELSE r

\* M6502::Reset: the next Step starts the reset sequence; I is forced, the
\* interrupt latches are cleared.
M6502_Reset(s) ==
    [s EXCEPT !.status = BitOr(BitOr(@, FLAG_INTERRUPT), FLAG_CONSTANT),
              !.CLIMaskingInterrupt = FALSE,
              !.BranchTakenMaskingInterrupt = FALSE,
              !.IRQPending = FALSE,
              !.NMIPending = FALSE,
              !.fn = "Reset_T0"]

\* M6502::SetBusFunctions: the two callbacks are stored as they are given ("null"
\* for a null pointer); status = FLAG_CONSTANT; Reset()
SetBusFunctions(s, readFn, writeFn) ==
    M6502_Reset([s EXCEPT !.dataBusReadFn = readFn,
                          !.dataBusWriteFn = writeFn,
                          !.status = FLAG_CONSTANT])

\* M6502::RDY(asserted): the halt request; releasing it ends the halt.
RDY(s, asserted) ==
    [s EXCEPT !.RDYAsserted = asserted, !.RDYHalted = @ /\ asserted]

\* M6502::Halted
Halted(s) == s.RDYHalted

\* An SO that also sets C.
SO_SetsCarry(s) == SetC(SetV(s))

\* M6502::SO
SO(s) == SetV(s)

-----------------------------------------------------------------------------
(* Environment profiles and bounds                                         *)

MaxSeqsAll    == 2   \* sequences per run (the reset sequence, instructions), every opcode
MaxSeqsIrq    == 4   \* sequences per run of the interrupt programs
MaxSeqsEnv    == 3   \* sequences per run with Reset() at any cycle
MaxSeqsBranch == 2   \* sequences per run of the branch programs
MaxSeqsNmi    == 5   \* sequences per run of the NMI programs
MaxSeqsNmiMask == 3  \* sequences per run of the BRK program whose vector fetch masks the NMI
MaxSeqsNmiBrk == 2   \* sequences per run of the BRK programs under NMI
MaxSeqsZp     == 2   \* sequences per run of the zero-page indexed programs
MaxSeqsStack  == 4   \* sequences per run of the push/pull programs
MaxSeqsCalls  == 4   \* sequences per run of the JSR/RTS/RTI/BRK programs
MaxSeqsBranchIrq == 5 \* sequences per run of the branch programs under IRQ
MaxSeqsRdy    == 2   \* sequences per run of the programs under RDY
MaxSeqsNull   == 2   \* sequences per run of a CPU constructed with a null callback
MaxSeqsAdc    == 1   \* instructions per run of the ADC programs
MaxSeqsJsr    == 4   \* sequences per run of the JSR/RTS programs
MaxSeqsIrqRti == 4   \* sequences per run of the IRQ/RTI programs
MaxSeqsFill   == 3   \* sequences per run of a CPU constructed in filled memory
MaxResets     == 1   \* Reset() calls per run after construction, where a profile allows them

\* The callbacks a host passes to the constructor: two functions.
HostCallbacks == {<<"host", "host">>}

\* A profile fixes the build switches, what the bus returns on the first opcode
\* fetch (ops), on later opcode fetches (opsLater) and on other reads of bytes the
\* CPU has not written (bytes), the values the uninitialised registers hold
\* (regs for a and x, yregs for y and sp), which pins a device drives (irq,
\* nmi, so), the length of the run and the callbacks the CPU is constructed
\* with; fills: the bytes the memory of the object is filled with when it is
\* constructed (every uninitialised member then holds that byte), rebinds:
\* the calls of SetBusFunctions a run makes, the first of them on an object
\* the default constructor made.
ProfileAll ==
    [name |-> "all", SUPPORT_NMI |-> FALSE, SUPPORT_RDY_HALTING |-> FALSE,
     ops |-> 0..255, opsLater |-> {234},
     bytes |-> {1, 255}, regs |-> {1}, yregs |-> {1},
     irq |-> FALSE, nmi |-> FALSE, so |-> FALSE,
     maxSeqs |-> MaxSeqsAll, maxResets |-> 0, callbacks |-> HostCallbacks,
     fills |-> {}, rebinds |-> 0]

\* first CLI or RTI; then NOP, CLI, SEI or BNE
ProfileIrq ==
    [name |-> "irq", SUPPORT_NMI |-> FALSE, SUPPORT_RDY_HALTING |-> FALSE,
     ops |-> {88, 64},
     opsLater |-> {234, 88, 120, 208},
     bytes |-> {1, 254}, regs |-> {0}, yregs |-> {0},
     irq |-> TRUE, nmi |-> FALSE, so |-> FALSE,
     maxSeqs |-> MaxSeqsIrq, maxResets |-> 0, callbacks |-> HostCallbacks,
     fills |-> {}, rebinds |-> 0]

\* RTI or PHA, then NOP; Reset() at any cycle
ProfileEnv ==
    [name |-> "env", SUPPORT_NMI |-> FALSE, SUPPORT_RDY_HALTING |-> FALSE,
     ops |-> {64, 72}, opsLater |-> {234},
     bytes |-> {1, 255}, regs |-> {1}, yregs |-> {1},
     irq |-> FALSE, nmi |-> FALSE, so |-> FALSE,
     maxSeqs |-> MaxSeqsEnv, maxResets |-> MaxResets, callbacks |-> HostCallbacks,
     fills |-> {}, rebinds |-> 0]

\* BPL BMI BVC BVS BCC BCS BNE BEQ at page edges
BranchOps == {16, 48, 80, 112, 144, 176, 208, 240}

ProfileBranch ==
    [name |-> "branch", SUPPORT_NMI |-> FALSE, SUPPORT_RDY_HALTING |-> FALSE,
     ops |-> BranchOps, opsLater |-> {234},
     bytes |-> {2, 253, 255}, regs |-> {1}, yregs |-> {1},
     irq |-> FALSE, nmi |-> FALSE, so |-> TRUE,
     maxSeqs |-> MaxSeqsBranch, maxResets |-> 0, callbacks |-> HostCallbacks,
     fills |-> {}, rebinds |-> 0]

\* every zp,X  zp,Y  (zp,X)  (zp),Y opcode with the operand byte $FE, the SO pin
\* driven
ZpOps ==
    {o \in 0..255 :
        \E c \in {"zpx_2_6", "zpx_3_5", "zpx_4_3", "zpy_2_6", "zpy_3_5", "idx_2_4",
                  "idx_3_3", "idx_Undoc", "idy_2_7", "idy_3_6", "idy_Undoc"} :
            T1AddressModeFunctions[o + 1] = c \o "_T1"}

ProfileZp ==
    [name |-> "zp", SUPPORT_NMI |-> FALSE, SUPPORT_RDY_HALTING |-> FALSE,
     ops |-> ZpOps, opsLater |-> {234},
     bytes |-> {254}, regs |-> {1, 2}, yregs |-> {1, 2},
     irq |-> FALSE, nmi |-> FALSE, so |-> TRUE,
     maxSeqs |-> MaxSeqsZp, maxResets |-> 0, callbacks |-> HostCallbacks,
     fills |-> {}, rebinds |-> 0]

\* TXS or PLP first, then PHA, PLA, PHP, PLP or TSX, on a stack at $00 or $FF
ProfileStack ==
    [name |-> "stack", SUPPORT_NMI |-> FALSE, SUPPORT_RDY_HALTING |-> FALSE,
     ops |-> {154, 40},
     opsLater |-> {72, 104, 8, 40, 186},
     bytes |-> {0, 255}, regs |-> {0, 255}, yregs |-> {0},
     irq |-> FALSE, nmi |-> FALSE, so |-> FALSE,
     maxSeqs |-> MaxSeqsStack, maxResets |-> 0, callbacks |-> HostCallbacks,
     fills |-> {}, rebinds |-> 0]

\* TXS with sp = $FD, then JSR, RTS, RTI or BRK, the IRQ line driven
ProfileCalls ==
    [name |-> "calls", SUPPORT_NMI |-> FALSE, SUPPORT_RDY_HALTING |-> FALSE,
     ops |-> {154},
     opsLater |-> {32, 96, 64, 0},
     bytes |-> {0}, regs |-> {253}, yregs |-> {253},
     irq |-> TRUE, nmi |-> FALSE, so |-> FALSE,
     maxSeqs |-> MaxSeqsCalls, maxResets |-> 0, callbacks |-> HostCallbacks,
     fills |-> {}, rebinds |-> 0]

\* NOP or PHA on a CPU constructed with a null read or write callback (or both)
ProfileNull ==
    [name |-> "null", SUPPORT_NMI |-> FALSE, SUPPORT_RDY_HALTING |-> FALSE,
     ops |-> {234, 72}, opsLater |-> {234},
     bytes |-> {1}, regs |-> {1}, yregs |-> {1},
     irq |-> FALSE, nmi |-> FALSE, so |-> FALSE,
     maxSeqs |-> MaxSeqsNull, maxResets |-> 0,
     callbacks |-> ({"null", "host"} \X {"null", "host"}) \ HostCallbacks,
     fills |-> {}, rebinds |-> 0]

\* CLI, then BNE, BEQ or NOP on page $01, the IRQ line driven
ProfileBranchIrq ==
    [name |-> "branchirq", SUPPORT_NMI |-> FALSE, SUPPORT_RDY_HALTING |-> FALSE,
     ops |-> {88},
     opsLater |-> {208, 240, 234},
     bytes |-> {1}, regs |-> {0}, yregs |-> {0},
     irq |-> TRUE, nmi |-> FALSE, so |-> FALSE,
     maxSeqs |-> MaxSeqsBranchIrq, maxResets |-> 0, callbacks |-> HostCallbacks,
     fills |-> {}, rebinds |-> 0]

\* CLI, then NOP, in a build with SUPPORT_NMI, both interrupt lines driven
ProfileNmi ==
    [name |-> "nmi", SUPPORT_NMI |-> TRUE, SUPPORT_RDY_HALTING |-> FALSE,
     ops |-> {88}, opsLater |-> {234},
     bytes |-> {254}, regs |-> {0}, yregs |-> {0},
     irq |-> TRUE, nmi |-> TRUE, so |-> FALSE,
     maxSeqs |-> MaxSeqsNmi, maxResets |-> 0, callbacks |-> HostCallbacks,
     fills |-> {}, rebinds |-> 0]

\* BRK or NOP in a build with SUPPORT_NMI, the NMI line driven, two vector bytes
ProfileNmiBrk ==
    [name |-> "nmibrk", SUPPORT_NMI |-> TRUE, SUPPORT_RDY_HALTING |-> FALSE,
     ops |-> {0, 234}, opsLater |-> {0, 234},
     bytes |-> {1, 254}, regs |-> {0}, yregs |-> {0},
     irq |-> FALSE, nmi |-> TRUE, so |-> FALSE,
     maxSeqs |-> MaxSeqsNmiBrk, maxResets |-> 0, callbacks |-> HostCallbacks,
     fills |-> {}, rebinds |-> 0]

\* BRK, then NOP, in a build with SUPPORT_NMI, the NMI line driven
ProfileNmiMask ==
    [name |-> "nmimask", SUPPORT_NMI |-> TRUE, SUPPORT_RDY_HALTING |-> FALSE,
     ops |-> {0}, opsLater |-> {234},
     bytes |-> {1}, regs |-> {0}, yregs |-> {0},
     irq |-> FALSE, nmi |-> TRUE, so |-> FALSE,
     maxSeqs |-> MaxSeqsNmiMask, maxResets |-> 0, callbacks |-> HostCallbacks,
     fills |-> {}, rebinds |-> 0]

\* NOP in a build with SUPPORT_NMI, the NMI line driven, Reset() or
\* SetBusFunctions() called at any cycle
ProfileNmiReset ==
    [name |-> "nmireset", SUPPORT_NMI |-> TRUE, SUPPORT_RDY_HALTING |-> FALSE,
     ops |-> {234}, opsLater |-> {234},
     bytes |-> {1}, regs |-> {0}, yregs |-> {0},
     irq |-> FALSE, nmi |-> TRUE, so |-> FALSE,
     maxSeqs |-> MaxSeqsNmiBrk, maxResets |-> MaxResets, callbacks |-> HostCallbacks,
     fills |-> {}, rebinds |-> MaxResets]

\* PHA, PLA, PLP, RTS, RTI or INC zp in a build with SUPPORT_RDY_HALTING, the
\* RDY line driven
ProfileRdy ==
    [name |-> "rdy", SUPPORT_NMI |-> FALSE, SUPPORT_RDY_HALTING |-> TRUE,
     ops |-> {72, 104, 40, 96, 64, 230}, opsLater |-> {234},
     bytes |-> {1}, regs |-> {1}, yregs |-> {1},
     irq |-> FALSE, nmi |-> FALSE, so |-> FALSE,
     maxSeqs |-> MaxSeqsRdy, maxResets |-> 0, callbacks |-> HostCallbacks,
     fills |-> {}, rebinds |-> 0]

\* JSR or TXS first, then JSR or RTS, from the reset vector $FFFF: a JSR at
\* $FFFF with sp = $FD, or at $0000 with sp = $00, $01 or $FF
ProfileJsr ==
    [name |-> "jsr", SUPPORT_NMI |-> FALSE, SUPPORT_RDY_HALTING |-> FALSE,
     ops |-> {154, 32}, opsLater |-> {32, 96},
     bytes |-> {255}, regs |-> {0, 1, 255}, yregs |-> {0},
     irq |-> FALSE, nmi |-> FALSE, so |-> FALSE,
     maxSeqs |-> MaxSeqsJsr, maxResets |-> 0, callbacks |-> HostCallbacks,
     fills |-> {}, rebinds |-> 0]

\* RTI first (it pulls the status $89: N, D and C set, I clear), then RTI
\* again as the interrupt handler, the IRQ line driven
ProfileIrqRti ==
    [name |-> "irqrti", SUPPORT_NMI |-> FALSE, SUPPORT_RDY_HALTING |-> FALSE,
     ops |-> {64}, opsLater |-> {64},
     bytes |-> {137}, regs |-> {0}, yregs |-> {0},
     irq |-> TRUE, nmi |-> FALSE, so |-> FALSE,
     maxSeqs |-> MaxSeqsIrqRti, maxResets |-> 0, callbacks |-> HostCallbacks,
     fills |-> {}, rebinds |-> 0]

\* The operands of the ADC programs: the bytes around $00, $80 and $FF, and $50
AdcOperands == (0..7) \cup {80} \cup (120..135) \cup (248..255)

\* ADC #imm alone, with each of these operands
ProfileAdc ==
    [name |-> "adc", SUPPORT_NMI |-> FALSE, SUPPORT_RDY_HALTING |-> FALSE,
     ops |-> {105}, opsLater |-> {},
     bytes |-> AdcOperands, regs |-> {0}, yregs |-> {0},
     irq |-> FALSE, nmi |-> FALSE, so |-> FALSE,
     maxSeqs |-> MaxSeqsAdc, maxResets |-> 0, callbacks |-> HostCallbacks,
     fills |-> {}, rebinds |-> 0]

\* SED, then NOP, on a CPU constructed in memory filled with $00, $AA or $FF,
\* by either constructor; Reset() and SetBusFunctions() at any cycle
ProfileFill ==
    [name |-> "fill", SUPPORT_NMI |-> FALSE, SUPPORT_RDY_HALTING |-> FALSE,
     ops |-> {248}, opsLater |-> {234},
     bytes |-> {1}, regs |-> {}, yregs |-> {},
     irq |-> FALSE, nmi |-> FALSE, so |-> FALSE,
     maxSeqs |-> MaxSeqsFill, maxResets |-> MaxResets, callbacks |-> HostCallbacks,
     fills |-> {0, 170, 255}, rebinds |-> MaxResets]

Profiles    == {ProfileAll, ProfileIrq, ProfileEnv, ProfileBranch, ProfileZp,
                ProfileStack, ProfileCalls, ProfileNull, ProfileBranchIrq,
                ProfileJsr, ProfileIrqRti, ProfileFill}
ProfilesNMI == {ProfileNmi, ProfileNmiBrk, ProfileNmiMask, ProfileNmiReset}
ProfilesRDY == {ProfileRdy}

-----------------------------------------------------------------------------
(* State machine                                                           *)

\* The stage of a dispatcher cursor nothing has set yet.
NoStage == "uninitialised"

\* Bit i of a byte.
BitOf(f, i) == (f \div (2 ^ i)) % 2 = 1

\* The members of an M6502 object before any constructor body has run, in
\* memory filled with the byte f: the registers, the address latches and the
\* opcode hold f in every byte; the interrupt flags are one-bit bit-fields
\* packed from bit 0 of one byte (CLIMaskingInterrupt, BranchTakenMasking-
\* Interrupt, IRQPending, and NMIPending in a build that has it), so each
\* holds one bit of f; the callbacks and the two cursors hold the fill
\* pattern, a null pointer only when f is zero.  The IRQ line has a
\* constructor of its own and starts released.  The RDY flags belong to no
\* build that a fill is given for and are left clear.
Uninitialised(f) ==
    [dataBusReadFn |-> IF f = 0 THEN "null" ELSE "wild",
     dataBusWriteFn |-> IF f = 0 THEN "null" ELSE "wild",
     pc |-> f * 257, a |-> f, x |-> f, y |-> f, sp |-> f, status |-> f,
     opcode |-> f, opfn |-> NoStage, exec |-> "none",
     ea |-> f * 257, ia |-> f * 257, value |-> f * 257,
     fn |-> NoStage,
     CLIMaskingInterrupt |-> BitOf(f, 0), BranchTakenMaskingInterrupt |-> BitOf(f, 1),
     IRQPending |-> BitOf(f, 2), NMIPending |-> BitOf(f, 3), nmiAtLastStep |-> FALSE,
     IRQ |-> FALSE, NMI |-> FALSE, RDYAsserted |-> FALSE, RDYHalted |-> FALSE,
     bus |-> << >>]

\* M6502(): status = FLAG_CONSTANT and two null callbacks; Reset() is not
\* called, so the cursor and everything else stay as the memory had them.
DefaultConstructed(f) ==
    [Uninitialised(f) EXCEPT !.status = FLAG_CONSTANT,
                             !.dataBusReadFn = "null", !.dataBusWriteFn = "null"]

\* The object as a constructor leaves it.  M6502(data, dataBusReadFn,
\* dataBusWriteFn) runs SetBusFunctions with the callbacks the host passed;
\* the registers it does not initialise hold any value of the profile, or the
\* fill byte of the memory.  M6502() is a way to construct the object in the
\* profiles that call SetBusFunctions later.
Constructed(p) ==
    { SetBusFunctions(
        [dataBusReadFn |-> "null", dataBusWriteFn |-> "null",
         pc |-> pc0, a |-> a0, x |-> x0, y |-> y0, sp |-> sp0, status |-> 0,
         opcode |-> 0, opfn |-> "BRK", exec |-> "none", ea |-> 0, ia |-> 0, value |-> 0,
         fn |-> "Reset_T0",
         CLIMaskingInterrupt |-> FALSE, BranchTakenMaskingInterrupt |-> FALSE,
         IRQPending |-> FALSE, NMIPending |-> FALSE, nmiAtLastStep |-> FALSE,
         IRQ |-> FALSE, NMI |-> FALSE, RDYAsserted |-> FALSE, RDYHalted |-> FALSE,
         bus |-> << >>],
        cb[1], cb[2]) :
        pc0 \in {512}, a0 \in p.regs, x0 \in p.regs, y0 \in p.yregs, sp0 \in p.yregs,
        cb \in p.callbacks }
    \cup { SetBusFunctions(Uninitialised(f), cb[1], cb[2]) :
               f \in p.fills, cb \in p.callbacks }
    \cup { DefaultConstructed(f) : f \in (IF p.rebinds > 0 THEN p.fills ELSE {}) }

\* The history kept beside the program: what the current sequence was when it
\* began (pre), its kind, cycle count and bus accesses (seq, cyc, log), the
\* last three sequence starts (trail), the length of the sequence before the
\* current one (prevCyc), the stage the last Step ran (last),
\* the polls the IRQ line has stayed asserted for (held), and the NMI edges
\* Step has sampled (fresh when none was pending, merged otherwise) beside the
\* NMI vector loads (nmis) and the latched NMIs a Reset() has cleared (dropped);
\* faulted: the program has ended in a call through a
\* null callback; atReset: the registers and memory the last Reset() found
\* (at construction, the ones the constructor left); rdy: what the last Step
\* with RDY asserted did; haltedAt: the stage the CPU is halted in, and resumed:
\* did the first Step that ran after a halt run that stage.
\* What Reset() found: the registers and the memory when it was called.
RegsAtReset(s, ram) == [a |-> s.a, x |-> s.x, y |-> s.y, status |-> s.status, mem |-> ram]

\* The registers a program can read, and the dispatcher stage.
Registers(s) == <<s.fn, s.pc, s.a, s.x, s.y, s.sp, s.status>>

\* No Step has run with RDY asserted.
NoRdy == [halt |-> FALSE, k |-> "R", stage |-> "", same |-> FALSE]

\* What the Step from s to r did under RDY: the kind of its bus access, the
\* stage it ran and whether it left the stage and the registers as they were.
RdyObserved(s, r) ==
    IF s.RDYAsserted
    THEN [halt |-> TRUE, k |-> r.bus[1].k, stage |-> s.fn,
          same |-> Registers(r) = Registers(s)]
    ELSE NoRdy

NoHist(s) ==
    [stepped |-> FALSE, seqs |-> 0, instrs |-> 0, resets |-> 0, sinceReset |-> 0,
     seq |-> "reset", cyc |-> 0, prevCyc |-> 0, pre |-> s, log |-> << >>,
     last |-> "", trail |-> << >>, held |-> 0,
     fresh |-> 0, merged |-> 0, nmis |-> 0, dropped |-> 0, edgeCyc |-> 0,
     faulted |-> FALSE, atReset |-> RegsAtReset(s, << >>),
     rdy |-> NoRdy, haltedAt |-> "", resumed |-> TRUE]

-----------------------------------------------------------------------------
(* The Screen of the emulator (Pi1541 framebuffer)                         *)

\* A uint32_t is held as the integer congruent to it modulo 2^32 in
\* -2^31 .. 2^31 - 1: -1 stands for 4294967295.  Sums of the coordinates used
\* here stay inside that range, so + is the wrapping sum; the order of two
\* uint32_t values is the unsigned one.
ULt(p, q) == IF (p < 0) = (q < 0) THEN p < q ELSE q < 0

MinWidth  == 320
MaxWidth  == 1024
MinHeight == 240
MaxHeight == 720
BitFontHt == 16

\* ScreenBase(): not opened, no geometry.  CBMFont is the global font pointer,
\* null until a CBM character ROM has been loaded; plots and by record the
\* framebuffer offsets the last drawing call wrote, with their column and row.
Screen_Construct(font) ==
    [opened |-> FALSE, width |-> 0, height |-> 0, bpp |-> 0, pitch |-> 0,
     CBMFont |-> font, plots |-> {}, by |-> ""]

\* Screen::Open: the desired size, a pair of uint32_t, is clamped to 320..1024
\* by 240..720 and the mailbox answers with the size and depth asked for and a
\* pitch of one row.
Screen_Open(s, widthDesired, heightDesired, colourDepth) ==
    LET w == IF ULt(widthDesired, MinWidth) THEN MinWidth
             ELSE IF ULt(MaxWidth, widthDesired) THEN MaxWidth ELSE widthDesired
        h == IF ULt(heightDesired, MinHeight) THEN MinHeight
             ELSE IF ULt(MaxHeight, heightDesired) THEN MaxHeight ELSE heightDesired
    IN  [s EXCEPT !.opened = TRUE, !.width = w, !.height = h, !.bpp = colourDepth,
                  !.pitch = w * (colourDepth \div 8), !.plots = {}, !.by = "Open"]

\* The inner loop of Screen::WriteChar over the eight columns of one font row:
\* a column at or right of width is skipped before the row byte is shifted.
RECURSIVE WriteCharRow(_, _, _, _, _)
WriteCharRow(s, x, row, b, px) ==
    IF px >= 8 THEN {}
    ELSE IF ~ULt(x + px, s.width) THEN WriteCharRow(s, x, row, b, px + 1)
    ELSE (IF BitAnd(b, 128) = 128
          THEN {[col |-> px + x, row |-> row,
                 off |-> ((px + x) * (s.bpp \div 8)) + row * s.pitch]}
          ELSE {})
         \cup WriteCharRow(s, x, row, U8(b * 2), px + 1)

\* The outer loop of Screen::WriteChar: it returns at the first font row whose
\* screen row is greater than height.
RECURSIVE WriteCharRows(_, _, _, _, _, _)
WriteCharRows(s, x, y, glyph, fontHeight, py) ==
    IF py >= fontHeight THEN {}
    ELSE IF ULt(s.height, y + py) THEN {}
    ELSE WriteCharRow(s, x, y + py, glyph[py + 1], 0)
         \cup WriteCharRows(s, x, y, glyph, fontHeight, py + 1)

\* Screen::WriteChar(petscii, x, y, c, colour); glyph is the rows of the font
\* bitmap that c selects (8 rows of CBMFont, 16 rows of the VGA font).
Screen_WriteChar(s, petscii, x, y, glyph) ==
    IF ~s.opened THEN s
    ELSE LET fontHeight == IF petscii /\ s.CBMFont THEN 8 ELSE BitFontHt
         IN  [s EXCEPT !.plots = WriteCharRows(s, x, y, glyph, fontHeight, 0),
                       !.by = "WriteChar"]

\* Screen::PlotPixel(x, y, colour): nothing outside width by height is plotted.
Screen_PlotPixel(s, x, y) ==
    IF ~ULt(x, s.width) \/ ~ULt(y, s.height)
    THEN [s EXCEPT !.plots = {}, !.by = "PlotPixel"]
    ELSE [s EXCEPT !.plots = {[col |-> x, row |-> y,
                               off |-> (x * (s.bpp \div 8)) + (y * s.pitch)]},
                   !.by = "PlotPixel"]

-----------------------------------------------------------------------------
(* The UART manager (fnUART)                                               *)

UART0_RX == 3
UART0_TX == 1
UART1_RX == 9
UART1_TX == 10
UART2_RX == 33
UART2_TX == 21

\* UARTManager(uart_num): the port number, a null event queue.  installed is
\* the driver slot of the port in the UART driver; overInstalled records that
\* the last uart_driver_install found a driver still installed on the port.
UARTManager_Construct(uart_num) ==
    [_uart_num |-> uart_num, _uart_q |-> FALSE, _initialized |-> FALSE,
     baud_rate |-> 0, pins |-> << >>, installed |-> FALSE, overInstalled |-> FALSE]

\* UARTManager::end(): the driver is deleted and the queue freed.
UARTManager_end(u) ==
    [u EXCEPT !.installed = FALSE, !._uart_q = FALSE]

\* UARTManager::set_baudrate(baud): the baud rate of the port is changed,
\* whether begin() has run or not.
UARTManager_set_baudrate(u, baud) ==
    [u EXCEPT !.baud_rate = baud]

\* UARTManager::begin(baud): end() runs only when the event queue is set; the
\* driver is installed with no event queue, so _uart_q stays null.
UARTManager_begin(u, baud) ==
    LET e == IF u._uart_q THEN UARTManager_end(u) ELSE u
        c == [e EXCEPT !.baud_rate = baud]
        p == IF c._uart_num = 0 THEN <<UART0_TX, UART0_RX>>
             ELSE IF c._uart_num = 1 THEN <<UART1_TX, UART1_RX>>
             ELSE IF c._uart_num = 2 THEN <<UART2_TX, UART2_RX>>
             ELSE << >>
    IN  IF p = << >> THEN c
        ELSE [c EXCEPT !.pins = p, !.overInstalled = c.installed,
                       !.installed = TRUE, !._initialized = TRUE]

-----------------------------------------------------------------------------
(* The modem sniffer                                                       *)

MaxFileLen == 4   \* headers and dumped bytes in the sniffer output file
MaxDumpLen == 2   \* bytes in one dumpInput or dumpOutput call

SnifferBytes == {10, 65}

\* The text fprintf writes for one dumped byte: a printable character quoted,
\* any other byte as two hex digits, lower case on input and upper on output.
SnifferText(dir, b) ==
    IF b > 32 /\ b < 127
    THEN (IF b = 65 THEN "'A' " ELSE "'?' ")
    ELSE IF dir = "INPUT" THEN (IF b = 10 THEN "0a " ELSE "?? ")
         ELSE (IF b = 10 THEN "0A " ELSE "?? ")

SnifferHeader(dir) ==
    [kind |-> "header", dir |-> dir,
     text |-> IF dir = "INPUT" THEN "\n\nINCOMING: " ELSE "\n\nOUTGOING: "]

RECURSIVE SnifferDump(_, _)
SnifferDump(dir, buf) ==
    IF buf = << >> THEN << >>
    ELSE <<[kind |-> "byte", dir |-> dir, text |-> SnifferText(dir, Head(buf))]>>
         \o SnifferDump(dir, Tail(buf))

\* ModemSniffer(fs, enable): no direction yet, no open file.  exists and
\* content are the output file on the file system.
ModemSniffer_Construct(enable, exists) ==
    [enable |-> enable, direction |-> "INIT", _file |-> FALSE,
     exists |-> exists, content |-> << >>]

\* ModemSniffer::restartOutput(): the file is created or truncated.
ModemSniffer_restartOutput(f) ==
    [f EXCEPT !._file = TRUE, !.exists = TRUE, !.content = << >>]

\* ModemSniffer::closeOutput(): a closed file is reopened for update first,
\* which fails when there is none; the direction is left as it was.
ModemSniffer_closeOutput(f) ==
    IF ~f._file /\ ~f.exists THEN f
    ELSE [f EXCEPT !._file = FALSE]

\* ModemSniffer::dumpInput / dumpOutput(buf, len), dir the direction of the call.
ModemSniffer_dump(f, dir, buf) ==
    IF ~f.enable THEN f
    ELSE LET o == IF ~f._file THEN ModemSniffer_restartOutput(f) ELSE f
             h == IF o.direction # dir THEN <<SnifferHeader(dir)>> ELSE << >>
         IN  [o EXCEPT !.direction = dir,
                       !.content = o.content \o h \o SnifferDump(dir, buf)]

ModemSniffer_dumpInput(f, buf) == ModemSniffer_dump(f, "INPUT", buf)

ModemSniffer_dumpOutput(f, buf) == ModemSniffer_dump(f, "OUTPUT", buf)

\* The devices as their constructors leave them.
DevicesConstructed ==
    /\ scr = Screen_Construct(FALSE)
    /\ uart = UARTManager_Construct(0)
    /\ snf = ModemSniffer_Construct(TRUE, FALSE)

-----------------------------------------------------------------------------
(* The CPU programs                                                        *)

InitOf(profiles) ==
    /\ cfg \in profiles
    /\ m \in Constructed(cfg)
    /\ mem = << >>
    /\ hist = NoHist(m)
    /\ DevicesConstructed

Init == InitOf(Profiles)

FetchStages == {"InstructionFetch", "InstructionFetchIRQ"}

\* The bytes that can be on the bus in the cycle that starts in s: an opcode of
\* the profile when the stage is a fetch, a byte of the profile, or a byte the
\* CPU has written.
Candidates(s) ==
    (IF s.fn \in FetchStages
     THEN (IF hist.instrs = 0 THEN cfg.ops ELSE cfg.opsLater) ELSE {})
    \cup cfg.bytes \cup {mem[a] : a \in DOMAIN mem}

\* Did the Step from s to r fetch an opcode (and not enter an interrupt sequence)?
IsOpcodeFetch(s, r) ==
    /\ s.fn \in FetchStages
    /\ r.fn \notin {"IRQ_T1", "NMI_T1"}

\* The bytes the host may return to the read of the Step from s to r: what the
\* CPU wrote at that address, else any opcode (for an opcode fetch) or byte of
\* the profile.  A cycle that reads nothing ignores the byte.
BusData(s, r) ==
    LET reads == {i \in 1..Len(r.bus) : r.bus[i].k = "R"}
        adr   == IF reads = {} THEN -1 ELSE r.bus[CHOOSE i \in reads : TRUE].a
    IN  IF adr \in DOMAIN mem THEN {mem[adr]}
        ELSE IF adr # -1 /\ IsOpcodeFetch(s, r)
             THEN (IF hist.instrs = 0 THEN cfg.ops ELSE cfg.opsLater)
        ELSE cfg.bytes

\* RAM after the writes of a Step.
RECURSIVE Written(_, _)
Written(ram, b) ==
    IF b = << >> THEN ram
    ELSE LET h == Head(b)
             next == IF h.k = "W"
                     THEN [x \in DOMAIN ram \cup {h.a} |-> IF x = h.a THEN h.v ELSE ram[x]]
                     ELSE ram
         IN Written(next, Tail(b))

StartsSequence(s) == s.fn \in FetchStages \cup {"Reset_T0"}

SequenceKind(s, r) ==
    IF s.fn = "Reset_T0" THEN "reset"
    ELSE IF r.fn = "IRQ_T1" THEN "irq"
    ELSE IF r.fn = "NMI_T1" THEN "nmi"
    ELSE "instr"

\* What a sequence start adds to the trail: its kind, the opcode fetched (-1 when
\* none is), I and the two masking latches as the poll found them, and the
\* registers a, x, sp, status and pc at that point.
TrailEntry(s, r, d) ==
    [kind |-> SequenceKind(s, r),
     op   |-> IF SequenceKind(s, r) = "instr" THEN d ELSE -1,
     I    |-> IRQDisabled(s),
     cm   |-> s.CLIMaskingInterrupt,
     bm   |-> s.BranchTakenMaskingInterrupt,
     a |-> s.a, x |-> s.x, sp |-> s.sp, status |-> s.status, pc |-> s.pc]

LastTwo(t) == IF Len(t) <= 2 THEN t ELSE SubSeq(t, Len(t) - 1, Len(t))

\* The history after the Step that took s to r with the byte d on the bus.  A
\* halted cycle is not counted as a cycle of the sequence.
Observe(h, s, r, d) ==
    LET new  == StartsSequence(s)
        edge == NMIEdge(s)
        cyc  == IF new THEN 1 ELSE h.cyc + 1
    IN IF Halted(r)
       THEN [h EXCEPT !.stepped = TRUE, !.rdy = RdyObserved(s, r), !.haltedAt = s.fn]
       ELSE
       [h EXCEPT !.stepped = TRUE,
                 !.rdy = RdyObserved(s, r),
                 !.resumed = h.haltedAt \in {"", s.fn},
                 !.haltedAt = "",
                 !.seqs = IF new THEN @ + 1 ELSE @,
                 !.instrs = IF new /\ SequenceKind(s, r) = "instr" THEN @ + 1 ELSE @,
                 !.sinceReset = IF @ < 8 THEN @ + 1 ELSE @,
                 !.seq = IF new THEN SequenceKind(s, r) ELSE @,
                 !.cyc = cyc,
                 !.prevCyc = IF new THEN h.cyc ELSE @,
                 !.pre = IF new THEN s ELSE @,
                 !.log = IF new THEN r.bus ELSE @ \o r.bus,
                 !.last = s.fn,
                 !.trail = IF new THEN Append(LastTwo(@), TrailEntry(s, r, d)) ELSE @,
                 !.held = IF ~new THEN @
                          ELSE IF ~IsAsserted(s.IRQ) THEN 0
                          ELSE IF @ < 3 THEN @ + 1 ELSE @,
                 !.fresh = IF edge /\ ~s.NMIPending THEN @ + 1 ELSE @,
                 !.merged = IF edge /\ s.NMIPending THEN @ + 1 ELSE @,
                 !.nmis = IF s.fn = "NMI_T6" THEN @ + 1 ELSE @,
                 !.edgeCyc = IF new THEN (IF edge THEN 1 ELSE 0)
                             ELSE IF edge /\ @ = 0 THEN cyc ELSE @]

\* Does the Step from s to r call a callback that is a null pointer?
NullCall(s, r) ==
    \E i \in 1..Len(r.bus) :
        \/ r.bus[i].k = "R" /\ s.dataBusReadFn = "null"
        \/ r.bus[i].k = "W" /\ s.dataBusWriteFn = "null"

\* One clock: Step().  A call through a null callback is undefined: the
\* program ends there, or the call returns (a read with a byte of the profile).
\* A call through a cursor nothing has set is undefined too: the program ends.
Step ==
    /\ ~hist.faulted
    /\ IF m.fn = NoStage
       THEN /\ hist' = [hist EXCEPT !.faulted = TRUE]
            /\ UNCHANGED <<m, mem>>
       ELSE /\ StartsSequence(m) => hist.seqs < cfg.maxSeqs
            /\ \E d \in Candidates(m) :
                 LET r == M6502_Step(m, d)
                 IN /\ d \in BusData(m, r)
                    /\ \E fault \in (IF NullCall(m, r) THEN {TRUE, FALSE} ELSE {FALSE}) :
                         IF fault
                         THEN /\ hist' = [hist EXCEPT !.faulted = TRUE]
                              /\ UNCHANGED <<m, mem>>
                         ELSE /\ m' = r
                              /\ mem' = Written(mem, r.bus)
                              /\ hist' = Observe(hist, m, r, d)
    /\ UNCHANGED <<cfg, scr, uart, snf>>

\* RESET asserted: Reset()
Reset ==
    /\ hist.resets < cfg.maxResets
    /\ m' = M6502_Reset(m)
    /\ hist' = [hist EXCEPT !.resets = @ + 1, !.sinceReset = 0,
                            !.seq = "reset", !.cyc = 0, !.prevCyc = 0,
                            !.pre = m', !.log = << >>, !.trail = << >>, !.held = 0,
                            !.dropped = IF cfg.SUPPORT_NMI /\ m.NMIPending THEN @ + 1 ELSE @,
                            !.atReset = RegsAtReset(m, mem)]
    /\ UNCHANGED <<mem, cfg, scr, uart, snf>>

\* The host binds the bus again: SetBusFunctions(), which sets status to
\* FLAG_CONSTANT and calls Reset().
Rebind ==
    /\ hist.resets < cfg.rebinds
    /\ \E cb \in cfg.callbacks : m' = SetBusFunctions(m, cb[1], cb[2])
    /\ hist' = [hist EXCEPT !.resets = @ + 1, !.sinceReset = 0,
                            !.seq = "reset", !.cyc = 0, !.prevCyc = 0,
                            !.pre = m', !.log = << >>, !.trail = << >>, !.held = 0,
                            !.dropped = IF cfg.SUPPORT_NMI /\ m.NMIPending THEN @ + 1 ELSE @,
                            !.atReset = RegsAtReset([m EXCEPT !.status = FLAG_CONSTANT], mem)]
    /\ UNCHANGED <<mem, cfg, scr, uart, snf>>

\* SO pin: SO()
SO_Pin ==
    /\ cfg.so
    /\ m' = SO(m)
    /\ UNCHANGED <<mem, cfg, hist, scr, uart, snf>>

\* A device asserts or releases the IRQ line: IRQ.Assert() / IRQ.Release()
IRQ_Assert ==
    /\ cfg.irq
    /\ m' = [m EXCEPT !.IRQ = Interrupt_Assert]
    /\ UNCHANGED <<mem, cfg, hist, scr, uart, snf>>

IRQ_Release ==
    /\ cfg.irq
    /\ m' = [m EXCEPT !.IRQ = Interrupt_Release]
    /\ hist' = [hist EXCEPT !.held = 0]
    /\ UNCHANGED <<mem, cfg, scr, uart, snf>>

\* A device asserts or releases the NMI line: NMI.Assert() / NMI.Release()
NMI_Assert ==
    /\ cfg.nmi
    /\ m' = [m EXCEPT !.NMI = Interrupt_Assert]
    /\ UNCHANGED <<mem, cfg, hist, scr, uart, snf>>

NMI_Release ==
    /\ cfg.nmi
    /\ m' = [m EXCEPT !.NMI = Interrupt_Release]
    /\ UNCHANGED <<mem, cfg, hist, scr, uart, snf>>

\* A bus master asserts or releases the halt request: RDY(true) / RDY(false)
RDY_Assert ==
    /\ cfg.SUPPORT_RDY_HALTING
    /\ m' = RDY(m, TRUE)
    /\ UNCHANGED <<mem, cfg, hist, scr, uart, snf>>

RDY_Release ==
    /\ cfg.SUPPORT_RDY_HALTING
    /\ m' = RDY(m, FALSE)
    /\ UNCHANGED <<mem, cfg, hist, scr, uart, snf>>

Next == Step \/ Reset \/ Rebind \/ SO_Pin \/ IRQ_Assert \/ IRQ_Release

Spec == Init /\ [][Next]_vars

\* The build with SUPPORT_NMI defined.
InitNMI == InitOf(ProfilesNMI)

NextNMI == Step \/ Reset \/ Rebind \/ IRQ_Assert \/ IRQ_Release \/ NMI_Assert \/ NMI_Release

SpecNMI == InitNMI /\ [][NextNMI]_vars

\* The build with SUPPORT_RDY_HALTING defined.
InitRDY == InitOf(ProfilesRDY)

NextRDY == Step \/ RDY_Assert \/ RDY_Release

SpecRDY == InitRDY /\ [][NextRDY]_vars

\* The instruction boundary a program reaches with any accumulator and, in
\* binary mode, C set or clear and N, V, Z all set or all clear: the state the
\* ADC programs start from, long after the reset sequence.
AdcStatuses == {36, 37, 230, 231}

AtAdc(p) ==
    { [c EXCEPT !.fn = "InstructionFetch", !.a = a0, !.status = st, !.sp = 253] :
        c \in Constructed(p), a0 \in 0..255, st \in AdcStatuses }

InitADC ==
    /\ cfg = ProfileAdc
    /\ m \in AtAdc(cfg)
    /\ mem = << >>
    /\ hist = [NoHist(m) EXCEPT !.sinceReset = 8]
    /\ DevicesConstructed

NextADC == Step

SpecADC == InitADC /\ [][NextADC]_vars

-----------------------------------------------------------------------------
(* The display and the serial devices, the CPU left as constructed         *)

CpuIdle ==
    /\ cfg = ProfileRdy
    /\ m \in Constructed(cfg)
    /\ mem = << >>
    /\ hist = NoHist(m)

\* Sizes and depths asked of Screen::Open, positions and glyphs given to
\* WriteChar: below and above the clamps and 2^32 - 1; at the left, right,
\* top and bottom edges of the smallest and largest screens and at the end of
\* the uint32_t range; the blank glyph, a bar down the left column and the
\* underline.
DesiredWidths  == {0, 2000, -1}
DesiredHeights == {0, 2000, -1}
ColourDepths   == {8, 32}
CharXs == {0, 316, 1020, -4}
CharYs == {0, 225, 232, 233, 240, 705, -1}
Glyphs == { [py \in 1..BitFontHt |-> b] : b \in {0, 128} }
          \cup { [py \in 1..BitFontHt |-> IF py \in {8, 14} THEN 255 ELSE 0] }

OpenScreen ==
    /\ \E w \in DesiredWidths, h \in DesiredHeights, d \in ColourDepths :
           scr' = Screen_Open(scr, w, h, d)
    /\ UNCHANGED <<m, mem, cfg, hist, uart, snf>>

WriteChar ==
    /\ \E petscii \in BOOLEAN, x \in CharXs, y \in CharYs, g \in Glyphs :
           scr' = Screen_WriteChar(scr, petscii, x, y, g)
    /\ UNCHANGED <<m, mem, cfg, hist, uart, snf>>

PlotPixel ==
    /\ \E x \in CharXs, y \in CharYs : scr' = Screen_PlotPixel(scr, x, y)
    /\ UNCHANGED <<m, mem, cfg, hist, uart, snf>>

InitScreen ==
    /\ CpuIdle
    /\ scr \in { Screen_Construct(font) : font \in BOOLEAN }
    /\ uart = UARTManager_Construct(0)
    /\ snf = ModemSniffer_Construct(TRUE, FALSE)

NextScreen == OpenScreen \/ WriteChar \/ PlotPixel

SpecScreen == InitScreen /\ [][NextScreen]_vars

UartPorts == {0, 1, 2, 3}
UartBauds == {19200, 115200}

RECURSIVE SeqsUpTo(_, _)
SeqsUpTo(S, n) ==
    IF n = 0 THEN {<< >>}
    ELSE SeqsUpTo(S, n - 1) \cup { <<b>> \o t : b \in S, t \in SeqsUpTo(S, n - 1) }

SnifferBufs == SeqsUpTo(SnifferBytes, MaxDumpLen)

\* A dump adds at most one header and the bytes of the buffer to the file.
SnifferRoom(buf) == Len(snf.content) + 1 + Len(buf) <= MaxFileLen

begin ==
    /\ \E baud \in UartBauds : uart' = UARTManager_begin(uart, baud)
    /\ UNCHANGED <<m, mem, cfg, hist, scr, snf>>

end ==
    /\ uart' = UARTManager_end(uart)
    /\ UNCHANGED <<m, mem, cfg, hist, scr, snf>>

set_baudrate ==
    /\ \E baud \in UartBauds : uart' = UARTManager_set_baudrate(uart, baud)
    /\ UNCHANGED <<m, mem, cfg, hist, scr, snf>>

dumpInput ==
    /\ \E buf \in SnifferBufs :
           /\ SnifferRoom(buf)
           /\ snf' = ModemSniffer_dumpInput(snf, buf)
    /\ UNCHANGED <<m, mem, cfg, hist, scr, uart>>

dumpOutput ==
    /\ \E buf \in SnifferBufs :
           /\ SnifferRoom(buf)
           /\ snf' = ModemSniffer_dumpOutput(snf, buf)
    /\ UNCHANGED <<m, mem, cfg, hist, scr, uart>>

closeOutput ==
    /\ snf' = ModemSniffer_closeOutput(snf)
    /\ UNCHANGED <<m, mem, cfg, hist, scr, uart>>

restartOutput ==
    /\ snf' = ModemSniffer_restartOutput(snf)
    /\ UNCHANGED <<m, mem, cfg, hist, scr, uart>>

InitSerial ==
    /\ CpuIdle
    /\ scr = Screen_Construct(FALSE)
    /\ uart \in { UARTManager_Construct(n) : n \in UartPorts }
    /\ snf \in { ModemSniffer_Construct(en, ex) : en \in BOOLEAN, ex \in BOOLEAN }

NextSerial == begin \/ end \/ set_baudrate \/ dumpInput \/ dumpOutput \/ closeOutput \/ restartOutput

SpecSerial == InitSerial /\ [][NextSerial]_vars

-----------------------------------------------------------------------------
(* Properties                                                              *)

\* The state between two sequences: the last Step completed one.
AtBoundary == hist.stepped /\ m.fn \in FetchStages

\* The T1 stage of the instruction the current sequence fetched.
FetchedChain == T1AddressModeFunctions[hist.log[1].v + 1]

\* C1: every Step() makes exactly one bus access: one call of the read
\* callback and none of the write callback, or one of the write callback and
\* none of the read callback.
C1_OneBusAccessPerStep ==
    hist.stepped => /\ Len(m.bus) = 1
                    /\ m.bus[1].k \in {"R", "W"}

\* A Step of an instruction that wrote to the bus.
C1_Witness_WriteCycle ==
    /\ hist.stepped
    /\ hist.seq = "instr"
    /\ Len(m.bus) = 1
    /\ m.bus[1].k = "W"

\* C2: after Reset() in any state the next 7 Steps are the reset sequence: SYNC
\* is false after each of the first 6 (and before the first), and after the 7th
\* SYNC is true, pc is the word read from $FFFC/$FFFD, I = 1, B = 0 and U = 1.
C2_ResetSequence ==
    /\ hist.sinceReset \in 0..6 => ~SYNC(m)
    /\ hist.sinceReset = 7 =>
         /\ SYNC(m)
         /\ Len(hist.log) = 7
         /\ hist.log[6].k = "R" /\ hist.log[6].a = 65532
         /\ hist.log[7].k = "R" /\ hist.log[7].a = 65533
         /\ m.pc = hist.log[6].v + 256 * hist.log[7].v
         /\ Flag(m, FLAG_INTERRUPT)
         /\ ~Flag(m, FLAG_BREAK)
         /\ Flag(m, FLAG_CONSTANT)

\* Reset() called in the middle of an RTI, after it pulled a status with B set
\* and before it pulled pc (sp = $FE), and the reset sequence run to its end.
C2_Witness_ResetMidInstruction ==
    /\ hist.resets = 1
    /\ Flag(hist.pre, FLAG_BREAK)
    /\ hist.pre.sp = 254
    /\ hist.sinceReset = 7
    /\ m.pc = 65281

\* C3: bit 5 (U) of the status register is 1 in every reachable state.
C3_UnusedFlagAlwaysSet == Flag(m, FLAG_CONSTANT)

\* C4: SYNC() is true at every instruction boundary (the next Step starts a new
\* instruction or interrupt sequence) and false in the middle of a sequence.
C4_SyncAtEveryBoundary == SYNC(m) <=> m.fn \in FetchStages

\* The cycle counts documented for the address-mode chains, by T1 stage.
DocumentedCycles(f) ==
    CASE f \in {"sb_1_T1", "imm_2_1_T1"} -> 2
      [] f \in {"zp_2_1_T1", "zp_3_1_T1", "abs5_6_1_T1", "ph_5_1_T1"} -> 3
      [] f \in {"abs_2_3_T1", "abs_3_2_T1", "zpx_2_6_T1", "zpx_3_5_T1",
                "zpy_2_6_T1", "zpy_3_5_T1", "pl_5_2_T1"} -> 4
      [] f \in {"zp_4_1_T1", "absx_3_4_T1", "absy_3_4_T1", "abs5_6_2_T1"} -> 5
      [] f \in {"abs_4_2_T1", "idx_2_4_T1", "idx_3_3_T1", "idy_3_6_T1",
                "jsr_5_3_T1", "rts_5_7_T1", "rti_5_5_T1"} -> 6
      [] f \in {"absx_4_4_T1", "absy_4_4_T1", "brk_5_4_T1"} -> 7
      [] f \in {"idx_Undoc_T1", "idy_Undoc_T1"} -> 8
      [] OTHER -> 0

\* C5: an instruction of a fixed-length chain takes the documented number of
\* Steps from its opcode fetch up to the next opcode fetch.
C5_ChainCycleCounts ==
    (AtBoundary /\ hist.seq = "instr" /\ DocumentedCycles(FetchedChain) # 0)
        => hist.cyc = DocumentedCycles(FetchedChain)

\* An undocumented (zp),Y read-modify-write instruction ran to its end.
C5_Witness_UndocRMW ==
    /\ AtBoundary
    /\ hist.seq = "instr"
    /\ FetchedChain = "idy_Undoc_T1"
    /\ hist.cyc = 8

IrqStages == {"IRQ_T1", "IRQ_T2", "IRQ_T3", "IRQ_T4", "IRQ_T5", "IRQ_T6"}

\* C6: an IRQ sequence starts only from the poll of an instruction boundary
\* that finds the IRQ line asserted, I = 0 and both masking latches clear; its
\* stages run nowhere else, and it pushes pc and status and loads $FFFE/$FFFF.
C6_IrqOnlyWhenPollAllows ==
    /\ hist.seq = "irq" =>
         /\ hist.pre.fn = "InstructionFetch"
         /\ hist.pre.IRQ = Interrupt_Assert
         /\ ~Flag(hist.pre, FLAG_INTERRUPT)
         /\ ~hist.pre.CLIMaskingInterrupt
         /\ ~hist.pre.BranchTakenMaskingInterrupt
    /\ (m.fn \in IrqStages \/ hist.last \in IrqStages) => hist.seq = "irq"
    /\ (AtBoundary /\ hist.seq = "irq") =>
         /\ hist.cyc = 7
         /\ \A i \in 3..5 : hist.log[i].k = "W"
         /\ hist.log[6].a = 65534 /\ hist.log[7].a = 65535
         /\ m.pc = hist.log[6].v + 256 * hist.log[7].v

\* An IRQ sequence ran to its end.
C6_Witness_IrqTaken ==
    /\ AtBoundary
    /\ hist.seq = "irq"
    /\ hist.last = "IRQ_T6"
    /\ ~Flag(hist.pre, FLAG_INTERRUPT)

\* A CLI fetched with I = 1 two sequences ago, the IRQ line asserted at its
\* poll and at the two polls since, and never released in between.
CliCase ==
    /\ Len(hist.trail) = 3
    /\ hist.held = 3
    /\ hist.trail[1].kind = "instr"
    /\ hist.trail[1].op = 88
    /\ hist.trail[1].I

\* C7 (as amended): with the IRQ line held through a CLI that found I = 1, no
\* IRQ sequence starts at the boundary right after CLI; the instruction that
\* runs there leaves CLIMaskingInterrupt clear unless it is itself a CLI; the
\* IRQ sequence starts right after that one instruction when it leaves I = 0
\* and sets neither masking latch, and is put off once more when it sets one
\* (a CLI, or a taken branch that stays on its page).
C7_CliDelaysIrqOneInstruction ==
    CliCase =>
      /\ hist.trail[2].kind = "instr"
      /\ (hist.trail[3].cm <=> (hist.trail[2].op = 88))
      /\ (~hist.trail[3].I /\ ~hist.trail[3].cm /\ ~hist.trail[3].bm)
            => hist.trail[3].kind = "irq"
      /\ (hist.trail[3].cm \/ hist.trail[3].bm) => hist.trail[3].kind = "instr"

\* CLI, then a NOP, then the IRQ sequence.
C7_Witness_IrqAfterOneNop ==
    /\ CliCase
    /\ hist.trail[2].op = 234
    /\ hist.trail[3].kind = "irq"

\* C7 as stated: exactly one further instruction runs with I = 0 before the IRQ
\* sequence starts, and CLIMaskingInterrupt is clear after it, whatever that
\* instruction is.
C7_ExactlyOneInstructionBeforeIrq ==
    (CliCase /\ ~hist.trail[3].I) =>
      /\ hist.trail[2].kind = "instr"
      /\ hist.trail[3].kind = "irq"
      /\ ~hist.trail[3].cm

\* The NMI the latch still owes.
Pending == IF m.NMIPending THEN 1 ELSE 0

C9_NmiHijacksBrk ==
    (AtBoundary /\ hist.seq = "instr" /\ hist.log[1].v = 0 /\ hist.edgeCyc \in 2..5) =>
      /\ hist.cyc = 7
      /\ hist.log[5].k = "W"
      /\ BitAnd(hist.log[5].v, FLAG_BREAK) = FLAG_BREAK
      /\ hist.log[6].k = "R" /\ hist.log[6].a = 65530
      /\ hist.log[7].k = "R" /\ hist.log[7].a = 65531
      /\ m.pc = hist.log[6].v + 256 * hist.log[7].v

\* A BRK hijacked by a transition sampled in T3, pc = $01FE from the NMI vector.
C9_Witness_EdgeInT3 ==
    /\ AtBoundary
    /\ hist.seq = "instr"
    /\ hist.log[1].v = 0
    /\ hist.edgeCyc = 4
    /\ hist.last = "NMI_T6"
    /\ m.pc = 510

BranchFlag(op) ==
    CASE op \in {16, 48}   -> FLAG_SIGN
      [] op \in {80, 112}  -> FLAG_OVERFLOW
      [] op \in {144, 176} -> FLAG_CARRY
      [] op \in {208, 240} -> FLAG_ZERO

BranchOnSet(op) == op \in {48, 112, 176, 240}

SignExtended(b) == IF b >= 128 THEN b - 256 ELSE b

\* C10: a conditional branch (the flags not changed from outside while it runs)
\* takes 2 Steps when not taken, 3 when taken to the page of the following
\* instruction and 4 when taken to another page; pc ends at the following
\* instruction plus the sign-extended offset modulo 65536 when taken, else at
\* the following instruction.
C10_BranchCyclesAndTarget ==
    (AtBoundary /\ hist.seq = "instr" /\ hist.log[1].v \in BranchOps
        /\ hist.pre.status = m.status) =>
      LET op        == hist.log[1].v
          following == (hist.pre.pc + 2) % 65536
          target    == (following + SignExtended(hist.log[2].v) + 65536) % 65536
          taken     == (BitAnd(m.status, BranchFlag(op)) # 0) = BranchOnSet(op)
      IN  IF taken
          THEN /\ m.pc = target
               /\ hist.cyc = IF target \div 256 = following \div 256 THEN 3 ELSE 4
          ELSE /\ m.pc = following
               /\ hist.cyc = 2

\* BNE at $FFFD with offset +2: taken across the page, pc wraps to $0001.
C10_Witness_TakenAcrossPage ==
    /\ AtBoundary
    /\ hist.seq = "instr"
    /\ hist.log[1].v = 208
    /\ hist.pre.pc = 65533
    /\ hist.cyc = 4
    /\ m.pc = 1

\* The opcode function of the instruction the current sequence fetched.
FetchedOpcodeFn == opcodeFunctions[hist.log[1].v + 1]

\* C11: once a JAM opcode has been fetched (and until Reset()), every Step is
\* one dummy read at the pc that follows the opcode and leaves pc, a, x, y, sp,
\* status and the dispatcher stage as the fetch left them; no later opcode is
\* fetched.
C11_JamFreezesCpu ==
    (hist.stepped /\ hist.seq = "instr" /\ FetchedOpcodeFn = "JAM") =>
        /\ m.fn = "sb_jam_T1"
        /\ m.pc = U16(hist.pre.pc + 1)
        /\ <<m.a, m.x, m.y, m.sp, m.status>>
             = <<hist.pre.a, hist.pre.x, hist.pre.y, hist.pre.sp, hist.pre.status>>
        /\ m.bus = <<[k |-> "R", a |-> IF hist.cyc = 1 THEN hist.pre.pc ELSE m.pc,
                      v |-> m.bus[1].v]>>

\* C12: JMP (ind) with the pointer P read from the two operand bytes reads the
\* low byte of the target from P and the high byte from the same page,
\* (P & 0xFF00) | ((P + 1) & 0xFF).
C12_JmpIndirectStaysInPage ==
    (AtBoundary /\ hist.seq = "instr" /\ FetchedChain = "abs5_6_2_T1") =>
        LET P == hist.log[2].v + 256 * hist.log[3].v
        IN  /\ hist.log[4].a = P
            /\ hist.log[5].a = BitOr(BitAnd(P, 65280), BitAnd(P + 1, 255))

ZpIndexedX == {"zpx_2_6_T1", "zpx_3_5_T1", "zpx_4_3_T1"}
ZpIndexedY == {"zpy_2_6_T1", "zpy_3_5_T1"}
IndirectX  == {"idx_2_4_T1", "idx_3_3_T1", "idx_Undoc_T1"}
IndirectY  == {"idy_2_7_T1", "idy_3_6_T1", "idy_Undoc_T1"}

\* C13: the addresses of a zero-page indexed instruction after its operand
\* fetch, and the pointer reads of (zp,X) and (zp),Y, are in page zero: the
\* dummy read at the operand byte zp, the operand accesses at (zp + index) mod
\* 256, the pointer bytes of (zp,X) at (zp + X) mod 256 and (zp + X + 1) mod
\* 256, those of (zp),Y at zp and (zp + 1) mod 256.
C13_ZeroPageIndexedWraps ==
    (AtBoundary /\ hist.seq = "instr") =>
        LET zp == hist.log[2].v
            X  == hist.pre.x
            Y  == hist.pre.y
            at(i) == hist.log[i].a
        IN  /\ FetchedChain \in ZpIndexedX \cup ZpIndexedY =>
                 LET index == IF FetchedChain \in ZpIndexedX THEN X ELSE Y
                 IN  /\ at(3) = zp
                     /\ \A i \in 4..Len(hist.log) : at(i) = (zp + index) % 256
            /\ FetchedChain \in IndirectX =>
                 /\ at(3) = zp
                 /\ at(4) = (zp + X) % 256
                 /\ at(5) = (zp + X + 1) % 256
            /\ FetchedChain \in IndirectY =>
                 /\ at(3) = zp
                 /\ at(4) = (zp + 1) % 256

\* LDA ($FE,X) with X = 1: the pointer is read from $FF and $00.
C13_Witness_PointerWraps ==
    /\ AtBoundary
    /\ hist.seq = "instr"
    /\ FetchedChain \in IndirectX
    /\ hist.log[4].a = 255
    /\ hist.log[5].a = 0

\* Stages that push (the access is at the sp before the decrement).
PushStages ==
    {"ph_5_1_T2", "jsr_5_3_T3", "jsr_5_3_T4", "brk_5_4_T2", "brk_5_4_T3", "brk_5_4_T4",
     "IRQ_T2", "IRQ_T3", "IRQ_T4", "NMI_T2", "NMI_T3", "NMI_T4"}
\* Stages that pull (the access is at the sp after the increment).
PullStages ==
    {"pl_5_2_T3", "rti_5_5_T3", "rti_5_5_T4", "rti_5_5_T5", "rts_5_7_T3", "rts_5_7_T4"}
\* Stages that read the stack and leave sp alone.
StackDummyStages == {"pl_5_2_T2", "jsr_5_3_T2", "rti_5_5_T2", "rts_5_7_T2"}
\* Stages of the reset sequence that read the stack and decrement sp.
ResetStackStages == {"Reset_T2", "Reset_T3", "Reset_T4"}

\* C14: the access of every push, pull and dummy stack read is at 0x0100 | sp,
\* within 0x0100-0x01FF, with sp the stack pointer the access uses: the one
\* before the decrement of a push or reset read, after the increment of a pull.
C14_StackStaysInPageOne ==
    (hist.stepped /\ hist.last \in PushStages \cup PullStages \cup StackDummyStages
                                   \cup ResetStackStages) =>
        /\ Len(m.bus) = 1
        /\ m.bus[1].a \in 256..511
        /\ m.bus[1].k = IF hist.last \in PushStages THEN "W" ELSE "R"
        /\ m.bus[1].a = IF hist.last \in PushStages \cup ResetStackStages
                        THEN BitOr(256, (m.sp + 1) % 256)
                        ELSE BitOr(256, m.sp)

\* A pull at sp = $FF: the read is at $0100 and sp becomes $00.
C14_Witness_PullWraps ==
    /\ hist.stepped
    /\ hist.last \in PullStages
    /\ m.bus[1].a = 256
    /\ m.sp = 0

\* C15: a CPU is never stepped with a null read or write callback: construction
\* with a null callback is rejected, so wherever Step() has been called (and
\* has run or has ended the program) both callbacks are functions.
C15_NullCallbacksRejected ==
    (hist.stepped \/ hist.faulted) =>
        /\ m.dataBusReadFn # "null"
        /\ m.dataBusWriteFn # "null"

\* The current sequence is the instruction second, just completed, and the
\* sequence before it was the instruction first.
JustRan(first, second) ==
    /\ AtBoundary
    /\ hist.seq = "instr"
    /\ Len(hist.trail) >= 2
    /\ hist.trail[Len(hist.trail)].op = second
    /\ hist.trail[Len(hist.trail) - 1].kind = "instr"
    /\ hist.trail[Len(hist.trail) - 1].op = first

\* The registers when the first of the two instructions was fetched.
Before == hist.trail[Len(hist.trail) - 1]

\* C16: PHA then PLA (the stack in RAM) leaves A and sp as they were before the
\* PHA, sets Z iff A = 0 and N to bit 7 of A, and takes 3 + 4 cycles.
C16_PhaPlaRoundTrip ==
    JustRan(72, 104) =>
        /\ m.a = Before.a
        /\ m.sp = Before.sp
        /\ Flag(m, FLAG_ZERO) = (Before.a = 0)
        /\ Flag(m, FLAG_SIGN) = (Before.a >= 128)
        /\ hist.prevCyc = 3
        /\ hist.cyc = 4

\* PHA at sp = $00 with A = 0, then PLA: the stack wrapped and Z is set.
C16_Witness_ZeroAcrossWrap ==
    /\ JustRan(72, 104)
    /\ Before.sp = 0
    /\ Before.a = 0
    /\ Flag(m, FLAG_ZERO)

\* C17: PHP then PLP (the stack in RAM) leaves C, Z, I, D, V and N as they were
\* before the PHP, leaves bit 5 set and sp unchanged; the byte PHP wrote has
\* bits 4 and 5 set.
C17_PhpPlpRoundTrip ==
    JustRan(8, 40) =>
        /\ BitAnd(m.status, 207) = BitAnd(Before.status, 207)
        /\ Flag(m, FLAG_CONSTANT)
        /\ m.sp = Before.sp
        /\ (256 + Before.sp) \in DOMAIN mem
        /\ BitAnd(mem[256 + Before.sp], 48) = 48

\* PHP with every flag clear but U (B clear), then PLP.
C17_Witness_BreakClearBefore ==
    /\ JustRan(8, 40)
    /\ Before.status = 32

\* C18: PLP leaves the B flag of the status register as it was, whatever byte
\* it pulls.
C18_PlpKeepsBreak ==
    (AtBoundary /\ hist.seq = "instr" /\ hist.log[1].v = 40) =>
        Flag(m, FLAG_BREAK) = Flag(hist.pre, FLAG_BREAK)

\* C19: TXS changes sp only (a, x, y and every status bit stay); a TSX that
\* follows leaves X as it was before the TXS and changes no status bit but N
\* and Z, which it sets from X.
C19_TxsTsxRoundTrip ==
    /\ (AtBoundary /\ hist.seq = "instr" /\ hist.log[1].v = 154) =>
          /\ m.sp = hist.pre.x
          /\ <<m.a, m.x, m.y, m.status>>
               = <<hist.pre.a, hist.pre.x, hist.pre.y, hist.pre.status>>
    /\ JustRan(154, 186) =>
          /\ m.x = Before.x
          /\ BitAnd(m.status, 125) = BitAnd(Before.status, 125)
          /\ Flag(m, FLAG_ZERO) = (Before.x = 0)
          /\ Flag(m, FLAG_SIGN) = (Before.x >= 128)

\* TXS then TSX with X = $FF: N is set by the TSX, sp went from $FD to $FF.
C19_Witness_NegativeX ==
    /\ JustRan(154, 186)
    /\ Before.x = 255
    /\ Before.sp = 253
    /\ m.sp = 255
    /\ Flag(m, FLAG_SIGN)

\* C20: the reset sequence leaves sp three below (modulo 256) the value it had
\* when Reset() was called.
C20_ResetDecrementsSpByThree ==
    (AtBoundary /\ hist.seq = "reset" /\ hist.cyc = 7) =>
        m.sp = (hist.pre.sp + 253) % 256

\* C21: the 7 Steps of a reset sequence call only the read callback, memory is
\* as Reset() found it, and A, X, Y and the D flag end as Reset() found them.
C21_ResetWritesNothing ==
    (hist.stepped /\ hist.seq = "reset") =>
        /\ \A i \in 1..Len(hist.log) : hist.log[i].k = "R"
        /\ mem = hist.atReset.mem
        /\ (AtBoundary /\ hist.cyc = 7) =>
              /\ <<m.a, m.x, m.y>> = <<hist.atReset.a, hist.atReset.x, hist.atReset.y>>
              /\ Flag(m, FLAG_DECIMAL) = (BitAnd(hist.atReset.status, FLAG_DECIMAL) # 0)

\* A reset sequence completed after Reset() was called with D set (by an RTI).
C21_Witness_DecimalKept ==
    /\ AtBoundary
    /\ hist.seq = "reset"
    /\ hist.cyc = 7
    /\ hist.resets = 1
    /\ BitAnd(hist.atReset.status, FLAG_DECIMAL) # 0
    /\ Flag(m, FLAG_DECIMAL)

\* C22: SO() called between two Steps, at whatever stage, sets V and changes
\* nothing else of the CPU: pc, sp, a, x, y, the other status bits, the
\* interrupt latches and lines and the dispatcher stage stay.
C22_SoSetsOnlyOverflow ==
    [][SO_Pin => m' = [m EXCEPT !.status = BitOr(m.status, FLAG_OVERFLOW)]]_vars

\* SO() was called in the middle of an instruction of a zero-page indexed or
\* branch program: V is set now and was clear when the instruction began.
C22_Witness_SoMidInstruction ==
    /\ hist.stepped
    /\ hist.seq = "instr"
    /\ m.fn \notin FetchStages
    /\ Flag(m, FLAG_OVERFLOW)
    /\ ~Flag(hist.pre, FLAG_OVERFLOW)
    /\ cfg.so


\* The bus accesses of a completed IRQ sequence entered with the registers pre:
\* do they have the claimed shape, but for bit 5 of the status byte?
IrqSequenceShape(pre, log, after) ==
    /\ Len(log) = 7
    /\ log[1] = [k |-> "R", a |-> pre.pc, v |-> log[1].v]
    /\ log[2] = [k |-> "R", a |-> pre.pc, v |-> log[2].v]
    /\ log[3] = [k |-> "W", a |-> 256 + pre.sp, v |-> Hi(pre.pc)]
    /\ log[4] = [k |-> "W", a |-> 256 + U8(pre.sp + 255), v |-> Lo(pre.pc)]
    /\ log[5].k = "W" /\ log[5].a = 256 + U8(pre.sp + 254)
    /\ BitAnd(log[5].v, FLAG_BREAK) = 0
    /\ BitAnd(log[5].v, 255 - FLAG_BREAK) = BitAnd(pre.status, 255 - FLAG_BREAK)
    /\ log[6].k = "R" /\ log[6].a = 65534
    /\ log[7].k = "R" /\ log[7].a = 65535
    /\ IRQDisabled(after)
    /\ after.sp = U8(pre.sp + 253)
    /\ after.pc = log[6].v + 256 * log[7].v

\* The IRQ sequence but for the U bit of the pushed byte: holds.
IrqSequenceButU ==
    (AtBoundary /\ hist.seq = "irq") => IrqSequenceShape(hist.pre, hist.log, m)

\* C24: a completed hardware IRQ sequence entered with program counter P has
\* read P, pushed the high and the low byte of P and the status byte with B = 0
\* and U = 1, read $FFFE and $FFFF, and leaves I = 1, sp three lower and pc at
\* the vector.
C24_IrqSequence ==
    (AtBoundary /\ hist.seq = "irq") =>
        /\ IrqSequenceShape(hist.pre, hist.log, m)
        /\ BitAnd(hist.log[5].v, FLAG_CONSTANT) # 0


\* The bus accesses of a completed BRK fetched with the registers pre: do they
\* have the claimed shape, but for bit 5 of the status byte?
BrkSequenceShape(pre, log, after) ==
    /\ Len(log) = 7
    /\ log[1] = [k |-> "R", a |-> pre.pc, v |-> 0]
    /\ log[2] = [k |-> "R", a |-> U16(pre.pc + 1), v |-> log[2].v]
    /\ log[3] = [k |-> "W", a |-> 256 + pre.sp, v |-> Hi(U16(pre.pc + 2))]
    /\ log[4] = [k |-> "W", a |-> 256 + U8(pre.sp + 255), v |-> Lo(U16(pre.pc + 2))]
    /\ log[5].k = "W" /\ log[5].a = 256 + U8(pre.sp + 254)
    /\ BitAnd(log[5].v, FLAG_BREAK) # 0
    /\ BitAnd(log[5].v, 255 - FLAG_BREAK) = BitAnd(pre.status, 255 - FLAG_BREAK)
    /\ log[6].k = "R" /\ log[6].a = 65534
    /\ log[7].k = "R" /\ log[7].a = 65535
    /\ IRQDisabled(after)
    /\ after.sp = U8(pre.sp + 253)
    /\ after.pc = log[6].v + 256 * log[7].v

\* The sequence just completed is a BRK instruction.
BrkCompleted == AtBoundary /\ hist.seq = "instr" /\ hist.log[1].v = 0

\* The BRK sequence but for the U bit of the pushed byte: holds.
BrkSequenceButU == BrkCompleted => BrkSequenceShape(hist.pre, hist.log, m)

\* C25: a completed BRK fetched at P has pushed the high and the low byte of
\* P + 2 and the status byte with B = 1 and U = 1, set I and loaded pc from
\* $FFFE/$FFFF, in 7 cycles with the opcode fetch.
C25_BrkSequence ==
    BrkCompleted =>
        /\ BrkSequenceShape(hist.pre, hist.log, m)
        /\ hist.cyc = 7
        /\ BitAnd(hist.log[5].v, FLAG_CONSTANT) # 0


\* The read-modify-write chains.
RmwChains == {"zp_4_1_T1", "zpx_4_3_T1", "abs_4_2_T1", "absx_4_4_T1", "absy_4_4_T1",
              "idx_Undoc_T1", "idy_Undoc_T1"}

\* The sequence just completed is a read-modify-write instruction.
RmwCompleted == AtBoundary /\ hist.seq = "instr" /\ FetchedChain \in RmwChains

\* The result INC, DEC, ASL and LSR write for the operand v (-1: another opcode).
RmwResult(f, v) ==
    CASE f = "INC" -> U8(v + 1)
      [] f = "DEC" -> U8(v + 255)
      [] f = "ASL" -> U8(v * 2)
      [] f = "LSR" -> v \div 2
      [] OTHER -> -1

\* C26: a completed read-modify-write instruction has ended with three
\* consecutive cycles: a read of the operand at the effective address, a write
\* of that operand unmodified to the same address, and a write of the result to
\* the same address (for INC, DEC, ASL and LSR: of the modified operand).
C26_RmwReadWriteWrite ==
    RmwCompleted =>
        LET n == Len(hist.log)
            rd == hist.log[n - 2]
            wb == hist.log[n - 1]
            wr == hist.log[n]
        IN /\ n = hist.cyc
           /\ rd.k = "R" /\ rd.a = m.ea
           /\ wb = [k |-> "W", a |-> rd.a, v |-> rd.v]
           /\ wr.k = "W" /\ wr.a = rd.a
           /\ RmwResult(FetchedOpcodeFn, rd.v) \in {-1, wr.v}

\* INC abs,X of $FF: $FF is written back, then $00.
C26_Witness_IncAbsX ==
    /\ RmwCompleted
    /\ FetchedChain = "absx_4_4_T1"
    /\ FetchedOpcodeFn = "INC"
    /\ hist.log[6] = [k |-> "W", a |-> m.ea, v |-> 255]
    /\ hist.log[7] = [k |-> "W", a |-> m.ea, v |-> 0]


\* The base address an absolute-indexed instruction fetched, and its index.
BaseAddress == hist.log[2].v + 256 * hist.log[3].v
IndexOf(chains) == IF FetchedChain \in chains THEN hist.pre.x ELSE hist.pre.y

\* base + index without the carry into the high byte.
WrongPage(base, index) == BitOr(BitAnd(base, 65280), BitAnd(base + index, 255))

\* The sequence just completed is an absolute,X or absolute,Y store.
StoreIndexedCompleted ==
    AtBoundary /\ hist.seq = "instr" /\ FetchedChain \in {"absx_3_4_T1", "absy_3_4_T1"}

\* What the stores do: the fourth cycle reads the base address, the fifth writes
\* at base + index.
StoreIndexedAsCoded ==
    StoreIndexedCompleted =>
        /\ hist.cyc = 5
        /\ hist.log[4].k = "R" /\ hist.log[4].a = BaseAddress
        /\ hist.log[5].k = "W"
        /\ hist.log[5].a = U16(BaseAddress + IndexOf({"absx_3_4_T1"}))

\* C27: a completed absolute,X or absolute,Y store with base B and index i has
\* read (B & $FF00) | ((B + i) & $FF) in its fourth cycle and written to
\* (B + i) mod 65536 in its fifth.
C27_StoreIndexedDummyRead ==
    StoreIndexedCompleted =>
        /\ hist.cyc = 5
        /\ hist.log[4].k = "R"
        /\ hist.log[4].a = WrongPage(BaseAddress, IndexOf({"absx_3_4_T1"}))
        /\ hist.log[5].k = "W"
        /\ hist.log[5].a = U16(BaseAddress + IndexOf({"absx_3_4_T1"}))


\* The sequence just completed is an absolute,X or absolute,Y read.
ReadIndexedCompleted ==
    AtBoundary /\ hist.seq = "instr" /\ FetchedChain \in {"absx_2_5_T1", "absy_2_5_T1"}

\* C28: a completed absolute,X or absolute,Y read with base B and index i took
\* 4 cycles and read its operand at B + i in the fourth when
\* (B & $FF) + i < $100; otherwise it took 5, read the pre-carry address
\* (B & $FF00) | ((B + i) & $FF) in the fourth and the operand at
\* (B + i) mod 65536 in the fifth.
C28_ReadIndexedPageCross ==
    ReadIndexedCompleted =>
        LET i == IndexOf({"absx_2_5_T1"})
            target == [k |-> "R", a |-> U16(BaseAddress + i), v |-> hist.log[hist.cyc].v]
        IN  IF BitAnd(BaseAddress, 255) + i < 256
            THEN /\ hist.cyc = 4
                 /\ hist.log[4] = target
            ELSE /\ hist.cyc = 5
                 /\ hist.log[4].k = "R"
                 /\ hist.log[4].a = WrongPage(BaseAddress, i)
                 /\ hist.log[5] = target

\* LDA $FFFF,X with X = 1 (opcode $BD): dummy read at $FF00, operand from $0000.
C28_Witness_CrossWrapsToZero ==
    /\ ReadIndexedCompleted
    /\ hist.log[1].v = 189
    /\ BaseAddress = 65535
    /\ hist.cyc = 5
    /\ hist.log[4].a = 65280
    /\ hist.log[5].a = 0
    /\ m.a = hist.log[5].v


\* The sequence just completed is SHA, SHX, SHY or SHS.
ShCompleted ==
    AtBoundary /\ hist.seq = "instr" /\ FetchedOpcodeFn \in {"SHA", "SHX", "SHY", "SHS"}

\* The base address of the SH* instruction (the pointer's target for (zp),Y),
\* its index and the indexed address.
ShBase   == IF FetchedChain = "idy_3_6_T1" THEN hist.log[3].v + 256 * hist.log[4].v
            ELSE BaseAddress
ShIndex  == IndexOf({"absx_3_4_T1"})
ShTarget == U16(ShBase + ShIndex)

\* What the SH* stores do: the last cycle writes at the indexed address.
ShAsCoded ==
    ShCompleted =>
        /\ FetchedChain \in {"absx_3_4_T1", "absy_3_4_T1", "idy_3_6_T1"}
        /\ hist.log[hist.cyc].k = "W"
        /\ hist.log[hist.cyc].a = ShTarget

\* C29: a completed SHA, SHX, SHY or SHS has written its byte to the indexed
\* address when indexing did not cross a page, and to the indexed address with
\* its high byte ANDed with the byte written when it did.
C29_ShStoreCorruptsHighByte ==
    ShCompleted =>
        LET wr == hist.log[hist.cyc]
        IN /\ wr.k = "W"
           /\ wr.a = IF BitAnd(ShBase, 255) + ShIndex > 255
                     THEN BitAnd(Hi(ShTarget), wr.v) * 256 + Lo(ShTarget)
                     ELSE ShTarget


\* The sequence before the current one was a branch instruction; the current
\* one began with the IRQ line asserted and I = 0.
AfterBranchUnderIrq ==
    /\ Len(hist.trail) >= 2
    /\ hist.trail[Len(hist.trail) - 1].kind = "instr"
    /\ hist.trail[Len(hist.trail) - 1].op \in BranchOps
    /\ IsAsserted(hist.pre.IRQ)
    /\ ~hist.trail[Len(hist.trail)].I

\* A branch taken on its page two sequences ago (it left
\* BranchTakenMaskingInterrupt set), I = 0 after it, the IRQ line asserted at
\* the two polls since and never released in between.
BranchCase ==
    /\ Len(hist.trail) = 3
    /\ hist.held >= 2
    /\ hist.trail[1].kind = "instr"
    /\ hist.trail[1].op \in BranchOps
    /\ hist.trail[2].bm
    /\ ~hist.trail[2].I

\* The boundary right after a branch: a 3-cycle branch (taken, same page) puts
\* the IRQ off, a 2-cycle (not taken) or 4-cycle (page crossed) one does not.
BoundaryAfterBranch ==
    AfterBranchUnderIrq =>
        LET now == hist.trail[Len(hist.trail)]
        IN /\ hist.prevCyc \in {2, 3, 4}
           /\ now.bm <=> (hist.prevCyc = 3)
           /\ ~now.cm
           /\ (now.kind = "instr") <=> (hist.prevCyc = 3)
           /\ (now.kind = "irq") <=> (hist.prevCyc \in {2, 4})

\* C30 (as amended): with the IRQ line asserted and I = 0 at the boundary after
\* a branch, the IRQ sequence starts there when the branch was not taken or
\* crossed a page, and an instruction is fetched there when the branch was
\* taken on its page (3 cycles); the IRQ sequence then starts right after that
\* one instruction when it leaves I = 0 and sets neither masking latch, and is
\* put off once more when it sets one (a CLI, or another taken branch that stays
\* on its page).
C30_BranchDelaysIrqOneInstruction ==
    /\ BoundaryAfterBranch
    /\ BranchCase =>
         /\ hist.trail[2].kind = "instr"
         /\ (~hist.trail[3].I /\ ~hist.trail[3].cm /\ ~hist.trail[3].bm)
               => hist.trail[3].kind = "irq"
         /\ (hist.trail[3].cm \/ hist.trail[3].bm) => hist.trail[3].kind = "instr"

\* BNE taken on its page with the line asserted during it, then a NOP, then the
\* IRQ sequence.
C30_Witness_IrqAfterBranchAndNop ==
    /\ BranchCase
    /\ hist.held = 2
    /\ hist.trail[1].op = 208
    /\ hist.trail[2].op = 234
    /\ hist.trail[3].kind = "irq"

\* C30 as stated: after a branch taken on its page exactly one further
\* instruction runs before the IRQ sequence starts, whatever that instruction
\* is; after any other branch the IRQ sequence starts at once.
C30_ExactlyOneInstructionAfterBranch ==
    /\ BoundaryAfterBranch
    /\ (BranchCase /\ ~hist.trail[3].I) =>
         /\ hist.trail[2].kind = "instr"
         /\ hist.trail[3].kind = "irq"


\* What a Step does under RDY: a cycle that reads through BUS_READ issues its
\* read and leaves the stage and the registers alone; a write cycle and a pull
\* (Pull calls dataBusReadFn itself) complete.
RdyAsCoded ==
    /\ hist.rdy.halt =>
         (hist.rdy.same <=> (hist.rdy.k = "R" /\ hist.rdy.stage \notin PullStages))
    /\ hist.resumed

\* C23: in the build with RDY support, the last Step made while a halt was
\* requested completed normally when its cycle was a write, and issued its read
\* and left the dispatcher stage and every register unchanged when its cycle
\* was a read, stack pulls included; the first Step after a halt runs the stage
\* the CPU was halted in.
C23_RdyHaltsEveryRead ==
    /\ hist.rdy.halt =>
         IF hist.rdy.k = "W" THEN ~hist.rdy.same ELSE hist.rdy.same
    /\ hist.resumed

\* The sequence start the last poll made, and the one before it.
ThisPoll == hist.trail[Len(hist.trail)]
LastPoll == hist.trail[Len(hist.trail) - 1]

\* The current sequence began at a poll (not at Reset_T0, and not at the fetch
\* that follows an IRQ sequence) that found the IRQ line asserted and I = 0.
PollUnderIrq ==
    /\ Len(hist.trail) >= 2
    /\ hist.pre.fn = "InstructionFetch"
    /\ hist.pre.IRQ = Interrupt_Assert
    /\ ~ThisPoll.I

\* The sequence before the current one set a masking latch: a CLI, or a branch
\* of 3 cycles (taken, on its page).
LastSetALatch ==
    /\ LastPoll.kind = "instr"
    /\ \/ LastPoll.op = 88
       \/ LastPoll.op \in BranchOps /\ hist.prevCyc = 3

\* C31 (as amended): a poll that finds the IRQ line asserted and I = 0 starts
\* the IRQ sequence unless the instruction that just ran was a CLI or a branch
\* taken on its page, in which case it fetches one more instruction; so the
\* IRQ sequence starts at the first boundary that does not follow such an
\* instruction, and a run of them puts it off for as long as the run lasts.
C31_IrqAtFirstUnmaskedBoundary ==
    PollUnderIrq =>
        /\ (ThisPoll.kind = "irq") <=> ~LastSetALatch
        /\ (ThisPoll.kind = "instr") <=> LastSetALatch
        /\ (ThisPoll.cm \/ ThisPoll.bm) <=> LastSetALatch

\* The IRQ line asserted during a CLI: the boundary after the CLI fetched a NOP
\* with I = 0, and the boundary after the NOP, the second one since the
\* assertion, started the IRQ sequence.
C31_Witness_IrqAtSecondBoundary ==
    /\ PollUnderIrq
    /\ Len(hist.trail) = 3
    /\ hist.held = 2
    /\ hist.trail[1].op = 88
    /\ hist.trail[2].kind = "instr" /\ hist.trail[2].op = 234
    /\ ~hist.trail[2].I /\ hist.trail[2].cm
    /\ hist.trail[3].kind = "irq"

\* C31 as stated: with the IRQ line held over two instruction boundaries and
\* I = 0 at both, neither of them in a reset sequence, the IRQ sequence has
\* started at the first or at the second of them.
C31_IrqWithinTwoBoundaries ==
    (/\ PollUnderIrq
     /\ hist.held >= 2
     /\ LastPoll.kind # "reset"
     /\ ~LastPoll.I)
        => (ThisPoll.kind = "irq" \/ LastPoll.kind = "irq")

\* The stage functions the class defines.
DefinedStages == DOMAIN ChainOf \cup FetchStages

\* C32: once Reset() has set it, the dispatcher cursor always names a defined
\* stage and every Step moves it to another one (cyc is 0 right after
\* Reset(), before any Step; an object made by M6502() has no cursor until
\* SetBusFunctions or Reset() is called, and no opcode fetch before that);
\* an instruction, whatever its opcode and whatever the memory holds, is back
\* at an instruction-fetch stage after at least 2 and at most 8 Steps counting
\* its opcode fetch.
C32_EveryOpcodeReturnsToFetch ==
    /\ m.fn # NoStage => m.fn \in DefinedStages
    /\ (hist.stepped /\ hist.cyc > 0) => m.fn # hist.last
    /\ hist.seq = "instr" =>
         /\ hist.cyc <= 8
         /\ hist.cyc = 8 => m.fn \in FetchStages
         /\ (hist.stepped /\ m.fn \in FetchStages) => hist.cyc >= 2

\* A JAM opcode ($02) ran: its single stage sb_jam_T1 put the dispatcher back
\* at the instruction fetch, 2 Steps after the opcode fetch.
C32_Witness_JamReturns ==
    /\ AtBoundary
    /\ hist.seq = "instr"
    /\ hist.log[1].v = 2
    /\ hist.last = "sb_jam_T1"
    /\ hist.cyc = 2

\* An ADC #imm ran to its end: the accumulator and the carry it found, its
\* operand, the 9-bit sum and the 8-bit result.
AdcCompleted ==
    /\ AtBoundary
    /\ hist.seq = "instr"
    /\ hist.log[1].v = 105
    /\ ~Flag(hist.pre, FLAG_DECIMAL)
AdcA   == hist.pre.a
AdcM   == hist.log[2].v
AdcSum == AdcA + AdcM + (IF Flag(hist.pre, FLAG_CARRY) THEN 1 ELSE 0)
AdcR   == AdcSum % 256

\* V as spec.md writes it, (~(A^M) & (A^r) & 0x80), and as EstablishV tests it,
\* (r^A) & (r^M) & 0x80 on the 16-bit sum.
AdcVSpec == BitAnd(BitAnd(BitXor(BitXor(AdcA, AdcM), 255), BitXor(AdcA, AdcR)), 128) # 0
AdcVCode == BitAnd(BitAnd(BitXor(AdcSum, AdcA), BitXor(AdcSum, AdcM)), 128) # 0

\* C33: in binary mode ADC leaves A = (A+M+C) mod 256, C = 1 iff the sum
\* exceeds 255, Z = 1 iff the 8-bit result is 0, N = bit 7 of the result and
\* V = 1 exactly when (~(A^M) & (A^r) & 0x80) is non-zero, which is also what
\* the test (r^A) & (r^M) & 0x80 gives, for every A, M and carry-in.
C33_AdcBinary ==
    AdcCompleted =>
        /\ m.a = AdcR
        /\ Flag(m, FLAG_CARRY) <=> (AdcSum > 255)
        /\ Flag(m, FLAG_ZERO) <=> (AdcR = 0)
        /\ Flag(m, FLAG_SIGN) <=> (AdcR >= 128)
        /\ Flag(m, FLAG_OVERFLOW) <=> AdcVSpec
        /\ AdcVSpec <=> AdcVCode

\* The scenario of spec.md: ADC #$50 with A = $50 and C = 0 left A = $A0,
\* C = 0, V = 1, N = 1, Z = 0.
C33_Witness_Adc50Plus50 ==
    /\ AdcCompleted
    /\ AdcA = 80 /\ AdcM = 80 /\ ~Flag(hist.pre, FLAG_CARRY)
    /\ m.a = 160
    /\ ~Flag(m, FLAG_CARRY) /\ Flag(m, FLAG_OVERFLOW)
    /\ Flag(m, FLAG_SIGN) /\ ~Flag(m, FLAG_ZERO)

\* A JSR ran to its end: P is the address its opcode was fetched from.
JsrCompleted ==
    /\ AtBoundary
    /\ hist.seq = "instr"
    /\ hist.log[1].v = 32

\* C34: a JSR at P writes the high byte of P+2 at $0100 | sp and the low byte
\* at $0100 | (sp - 1); when the instruction at its target is an RTS, the two
\* take 12 cycles and leave pc = P+3 (mod 65536) and sp as it was before the
\* JSR (the stack page holds what was written to it).
C34_JsrRtsRoundTrip ==
    /\ JsrCompleted =>
         /\ hist.cyc = 6
         /\ hist.log[4] = [k |-> "W", a |-> 256 + hist.pre.sp,
                           v |-> Hi(U16(hist.pre.pc + 2))]
         /\ hist.log[5] = [k |-> "W", a |-> 256 + U8(hist.pre.sp + 255),
                           v |-> Lo(U16(hist.pre.pc + 2))]
         /\ m.sp = U8(hist.pre.sp + 254)
    /\ JustRan(32, 96) =>
         /\ hist.prevCyc + hist.cyc = 12
         /\ m.pc = U16(Before.pc + 3)
         /\ m.sp = Before.sp

\* JSR at $FFFF, so that P+2 and P+3 wrap to $0001 and $0002, and the RTS at
\* its target run to its end.
C34_Witness_ReturnWrapsPc ==
    /\ JustRan(32, 96)
    /\ Before.pc = 65535
    /\ m.pc = 2
    /\ m.sp = 253

\* An RTI just ran to its end and the sequence before it was an IRQ sequence:
\* the handler at the vector began with RTI.
IrqThenRti ==
    /\ AtBoundary
    /\ hist.seq = "instr"
    /\ Len(hist.trail) >= 2
    /\ hist.trail[Len(hist.trail)].op = 64
    /\ hist.trail[Len(hist.trail) - 1].kind = "irq"

\* C, Z, I, D, V and N of a status byte (all but B and U).
SixFlags(status) == BitAnd(status, 207)

\* C35: an IRQ sequence entered at an instruction boundary with pc = P, whose
\* handler immediately executes RTI (the stack page holds what was written to
\* it), is followed by pc = P, sp as before the interrupt and C, Z, I, D, V and
\* N as before the interrupt.
C35_IrqRtiRoundTrip ==
    IrqThenRti =>
        /\ m.pc = Before.pc
        /\ m.sp = Before.sp
        /\ SixFlags(m.status) = SixFlags(Before.status)
        /\ ~Before.I

\* An IRQ taken with status $89 (N, D and C set, I clear) at pc = $8989 and
\* sp = $00, and the RTI of its handler: back at $8989 with I clear.
C35_Witness_BackFromHandler ==
    /\ IrqThenRti
    /\ Before.status = 137
    /\ Before.pc = 35209
    /\ Before.sp = 0
    /\ m.pc = 35209
    /\ ~Flag(m, FLAG_INTERRUPT)


\* C36: on an opened Screen every pixel WriteChar plots lies in a column left
\* of width and a row above height, and its framebuffer offset lies before
\* the offset of row height (height * pitch).
C36_WriteCharStaysInside ==
    (scr.opened /\ scr.by = "WriteChar") =>
        \A p \in scr.plots :
            /\ ULt(p.col, scr.width)
            /\ ULt(p.row, scr.height)
            /\ p.off >= 0
            /\ p.off < scr.height * scr.pitch


\* C37: in every sequence of begin() and end() calls of a UARTManager, no
\* uart_driver_install finds the driver of its port still installed: a begin()
\* on a begun port deletes the driver before it installs it again.
C37_DriverNeverInstalledTwice == ~uart.overInstalled

\* C38: with sniffing enabled, every dumped byte in the output file follows
\* the header of its direction or another byte of the same run, so the first
\* byte of a file that was created again follows a header.
C38_RunsFollowHeader ==
    snf.enable =>
        \A i \in 1..Len(snf.content) :
            snf.content[i].kind = "byte" =>
                /\ i > 1
                /\ snf.content[i - 1].dir = snf.content[i].dir

====
